---- MODULE Spec2Model ----
(***************************************************************************)
(* Sketch-Ai: the provider gateway ("Atelier Apex Orchestration Proxy").   *)
(*                                                                         *)
(* Two implementations of the endpoint live in the repository:             *)
(*   - the edge handler with demo mode (handler, safe, json, handleGemini  *)
(*     ... in src/unnamed/part_005), modelled under the source's names;    *)
(*   - api/proxy.ts (handler, safeHandle, handleGemini ...), modelled      *)
(*     under the source's names with the prefix proxy_.                    *)
(*                                                                         *)
(* JavaScript values are strings; `undefined` is the string undefined.     *)
(* A JavaScript object is a function from its keys to strings.             *)
(***************************************************************************)
EXTENDS Integers, Sequences, FiniteSets, TLC

VARIABLES env, phase, req, impl, resp, log, net, upstream, prev

\* requests in flight at the same time, one record per handler invocation
VARIABLES flight

\* the client (App): const [state, setState] = useState<AppState>(...), the
\* further useState values (promptField is the value of `prompt`, a name the
\* gateway's prompt already bears here), the browser's localStorage, the
\* syntheses and the timers under way, the roadmaps the syntheses made so
\* far, and the module './services/aiService' resolves to in the build
VARIABLES state, mode, promptField, sessionInitialized, sessionFingerprint,
          localStorage, pending, timers, made, services

gatewayVars == <<env, phase, req, impl, resp, log, net, upstream, prev>>

appVars == <<state, mode, promptField, sessionInitialized, sessionFingerprint,
             localStorage, pending, timers, made, services>>

vars == <<gatewayVars, flight, appVars>>

-----------------------------------------------------------------------------
(* JavaScript values                                                       *)

undefined == "<undefined>"

Falsy(x) == x = undefined \/ x = ""

Truthy(x) == ~Falsy(x)

\* a || b
Or(a, b) == IF Truthy(a) THEN a ELSE b

\* `${x}` in a template literal
Str(x) == IF x = undefined THEN "undefined" ELSE x

\* JSON.stringify of an object: a key whose value is undefined is dropped
JSONstringify(obj) == [k \in {j \in DOMAIN obj : obj[j] # undefined} |-> obj[k]]

Has(obj, k) == k \in DOMAIN obj

\* process.env[name]
GetEnv(e, name) == IF name \in DOMAIN e THEN e[name] ELSE undefined

-----------------------------------------------------------------------------
(* Bounds and input sets                                                   *)

MaxEnvVars == 2

ShortPrompt == "draw a cat"

\* two prompts of 51 characters that agree on their first 50
LongPromptA == "aaaaaaaaaaaaaaaaaaaaaaaaaaaaaaaaaaaaaaaaaaaaaaaaaaA"

LongPromptB == "aaaaaaaaaaaaaaaaaaaaaaaaaaaaaaaaaaaaaaaaaaaaaaaaaaB"

UserKey == "user-key"

DemoNames == {"DEMO_MODE", "VITE_DEMO_MODE"}

\* the key variables the model sets; the handlers read further ones, unset
KeyNames ==
  {"GEMINI_API_KEY", "VITE_GEMINI_API_KEY", "OPENAI_API_KEY",
   "STABILITYAI_API_KEY", "STABILITY_AI_API_KEY", "MIDJOURNEY_API_KEY"}

EnvNames == DemoNames \cup KeyNames

EnvValues(n) ==
  CASE n = "DEMO_MODE" -> {"true", "false"}
    [] n = "VITE_DEMO_MODE" -> {"true"}
    [] OTHER -> {"env:" \o n}

AllEnvValues == UNION {EnvValues(n) : n \in EnvNames}

\* the process configurations: at most MaxEnvVars variables are set
EnvConfigs ==
  UNION {{e \in [S -> AllEnvValues] : \A n \in S : e[n] \in EnvValues(n)} :
           S \in {T \in SUBSET EnvNames : Cardinality(T) <= MaxEnvVars}}

Providers ==
  {undefined, "gemini", "Gemini", "OpenAI", "Hugging Face", "stability",
   "Stability AI", "GeminiListModels", "DeepAI", "Artbreeder", "Midjourney",
   "RunwayML", "Replicate", "Leonardo"}

ApiKeys == {undefined, UserKey, "DEFAULT"}

Types == {undefined, "text", "image", "roadmap"}

NoPayload == [def |-> FALSE, prompt |-> undefined]

Payloads ==
  {NoPayload} \cup
  {[def |-> TRUE, prompt |-> p] : p \in {undefined, ShortPrompt}}

\* a request whose body is not read, or does not parse to an object
Bodyless(m, b) ==
  [method |-> m, body |-> b, provider |-> undefined, apiKey |-> undefined,
   type |-> undefined, payload |-> NoPayload]

Requests ==
  {Bodyless("OPTIONS", "unread"), Bodyless("GET", "unread"),
   Bodyless("POST", "invalid"), Bodyless("POST", "null")} \cup
  [method : {"POST"}, body : {"object"}, provider : Providers,
   apiKey : ApiKeys, type : Types, payload : Payloads]

\* what the upstream provider answers to the adapter's fetch
Reply(fetchOk, ok, status, jsonOk, message, field, isArray) ==
  [fetchOk |-> fetchOk, ok |-> ok, status |-> status, jsonOk |-> jsonOk,
   message |-> message, field |-> field, isArray |-> isArray]

ReplyNetworkError == Reply(FALSE, FALSE, 0, FALSE, undefined, undefined, FALSE)

ReplyBadJson == Reply(TRUE, TRUE, 200, FALSE, undefined, undefined, FALSE)

ReplyError == Reply(TRUE, FALSE, 401, TRUE, "upstream says no", undefined, FALSE)

ReplyErrorNoMessage == Reply(TRUE, FALSE, 500, TRUE, undefined, undefined, FALSE)

ReplyOk == Reply(TRUE, TRUE, 200, TRUE, undefined, "CONTENT", FALSE)

ReplyOkArray == Reply(TRUE, TRUE, 200, TRUE, undefined, "CONTENT", TRUE)

ReplyMissingField == Reply(TRUE, TRUE, 200, TRUE, undefined, undefined, FALSE)

ReplyMissingFieldArray == Reply(TRUE, TRUE, 200, TRUE, undefined, undefined, TRUE)

ReplyOkWithError == Reply(TRUE, TRUE, 200, TRUE, "upstream says no", undefined, FALSE)

Replies ==
  {ReplyNetworkError, ReplyBadJson, ReplyError, ReplyErrorNoMessage, ReplyOk,
   ReplyOkArray, ReplyMissingField, ReplyMissingFieldArray, ReplyOkWithError}

\* the values new Date().toISOString() takes
Times == {"2025-01-01T00:00:00.000Z", "2025-01-02T00:00:00.000Z"}

\* the messages of the errors the runtime itself throws
FetchFailed == "fetch failed"

JsonSyntaxError == "Unexpected token < in JSON"

DestructureTypeError == "Cannot destructure property 'provider' of 'body' as it is null."

\* new Response(body, {status}) with a body and a null-body status: the Fetch
\* standard has the constructor throw; a runtime that skips the check does not
NullBodyTypeError == "Response constructor: Invalid response status code 204"

\* whether the runtime's Response constructor makes that check
ResponseChecks == BOOLEAN

-----------------------------------------------------------------------------
(* Responses and adapter outcomes                                          *)

CorsHeaders ==
  [ContentType |-> "application/json", AccessControlAllowOrigin |-> "*",
   AccessControlAllowMethods |-> "POST, OPTIONS",
   AccessControlAllowHeaders |-> "Content-Type, Authorization"]

\* json(body, status): every response of the edge handler
json(body, status) ==
  [status |-> status, text |-> undefined, body |-> JSONstringify(body),
   headers |-> CorsHeaders]

NoResponse == [status |-> 0, text |-> undefined, body |-> << >>, headers |-> << >>]

\* an adapter returns a response or throws; calls are its outbound requests
\* and delegated names the adapter functions it handed the request on to
Returned(r, calls) ==
  [thrown |-> FALSE, message |-> undefined, resp |-> r, calls |-> calls,
   delegated |-> << >>]

Thrown(m, calls) ==
  [thrown |-> TRUE, message |-> m, resp |-> NoResponse, calls |-> calls,
   delegated |-> << >>]

\* return await fn(...) inside an adapter: the outcome is fn's
Delegated(fn, outcome) == [outcome EXCEPT !.delegated = <<fn>> \o @]

Call(url, method, auth) == [url |-> url, method |-> method, auth |-> auth]

\* what a handler run produces: the response, the stages it went through
\* and the outbound calls it made
Out(r, l, calls) == [resp |-> r, log |-> l, calls |-> calls]

\* arrayBufferToBase64 on the bytes the model's upstream sends
arrayBufferToBase64(bytes) ==
  CASE bytes = "CONTENT" -> "Q09OVEVOVA=="
    [] bytes = undefined -> ""
    [] OTHER -> "base64(" \o bytes \o ")"

-----------------------------------------------------------------------------
(* The edge handler with demo mode: adapters                               *)

\* an adapter that tries a failed fetch a second time
handleGemini_retry(key, type, payload, reply) ==
  LET model == IF type = "roadmap" THEN "models/gemini-pro-latest"
               ELSE "models/gemini-flash-latest"
      url == "https://generativelanguage.googleapis.com/v1beta/" \o model
             \o ":generateContent?key=" \o Str(key)
      calls == <<Call(url, "POST", undefined)>>
  IN  IF ~reply.fetchOk THEN Thrown(FetchFailed, calls \o calls)
      ELSE IF ~reply.jsonOk THEN Thrown(JsonSyntaxError, calls)
      ELSE IF ~reply.ok
        THEN Thrown(Or(reply.message, "Gemini API error: " \o ToString(reply.status)), calls)
      ELSE Returned(json([result |-> Or(reply.field, "")], 200), calls)

\* handleGemini(key, type, payload), the upstream answering reply
handleGemini(key, type, payload, reply) ==
  LET model == IF type = "roadmap" THEN "models/gemini-pro-latest"
               ELSE "models/gemini-flash-latest"
      url == "https://generativelanguage.googleapis.com/v1beta/" \o model
             \o ":generateContent?key=" \o Str(key)
      calls == <<Call(url, "POST", undefined)>>
  IN  IF ~reply.fetchOk THEN Thrown(FetchFailed, calls)
      ELSE IF ~reply.jsonOk THEN Thrown(JsonSyntaxError, calls)
      ELSE IF ~reply.ok
        THEN Thrown(Or(reply.message, "Gemini API error: " \o ToString(reply.status)), calls)
      ELSE Returned(json([result |-> Or(reply.field, "")], 200), calls)

\* listGeminiModels(key)
listGeminiModels(key, reply) ==
  LET url == "https://generativelanguage.googleapis.com/v1beta/models?key=" \o Str(key)
      calls == <<Call(url, "GET", undefined)>>
  IN  IF ~reply.fetchOk THEN Thrown(FetchFailed, calls)
      ELSE IF ~reply.jsonOk THEN Thrown(JsonSyntaxError, calls)
      ELSE IF ~reply.ok
        THEN Thrown(Or(reply.message, "Failed to list Gemini models"), calls)
      ELSE Returned(json([models |-> reply.field], 200), calls)

\* handleOpenAI(key, type, payload)
handleOpenAI(key, type, payload, reply) ==
  LET isImage == type = "image"
      url == IF isImage THEN "https://api.openai.com/v1/images/generations"
             ELSE "https://api.openai.com/v1/chat/completions"
      calls == <<Call(url, "POST", "Bearer " \o Str(key))>>
  IN  IF ~reply.fetchOk THEN Thrown(FetchFailed, calls)
      ELSE IF ~reply.jsonOk THEN Thrown(JsonSyntaxError, calls)
      ELSE IF ~reply.ok
        THEN Thrown(Or(reply.message, "OpenAI API error: " \o ToString(reply.status)), calls)
      ELSE Returned(json([result |-> reply.field], 200), calls)

\* handleHuggingFace(key, type, payload)
handleHuggingFace(key, type, payload, reply) ==
  LET model == IF type = "image" THEN "stabilityai/stable-diffusion-xl-base-1.0"
               ELSE "tiiuae/falcon-40b-instruct"
      url == "https://api-inference.huggingface.co/models/" \o model
      calls == <<Call(url, "POST", "Bearer " \o Str(key))>>
      text == IF reply.isArray THEN reply.field
              ELSE Or(reply.field, "{}")
  IN  IF ~reply.fetchOk THEN Thrown(FetchFailed, calls)
      ELSE IF ~reply.ok
        THEN Thrown(Or(reply.message, "Hugging Face error: " \o ToString(reply.status)), calls)
      ELSE IF type = "image"
        THEN Returned(json([result |-> "data:image/png;base64," \o arrayBufferToBase64(reply.field)], 200), calls)
      ELSE IF ~reply.jsonOk THEN Thrown(JsonSyntaxError, calls)
      ELSE Returned(json([result |-> text], 200), calls)

\* handleStability(key, type, payload)
handleStability(key, type, payload, reply) ==
  LET url == "https://api.stability.ai/v1/generation/stable-diffusion-xl-1024-v1-0/text-to-image"
      calls == <<Call(url, "POST", "Bearer " \o Str(key))>>
  IN  IF type # "image"
        THEN Thrown("Stability AI only supports image generation.", << >>)
      ELSE IF ~reply.fetchOk THEN Thrown(FetchFailed, calls)
      ELSE IF ~reply.jsonOk THEN Thrown(JsonSyntaxError, calls)
      ELSE IF ~reply.ok \/ Truthy(reply.message)
        THEN Thrown(Or(reply.message, "Stability AI error: " \o ToString(reply.status)), calls)
      ELSE Returned(json([result |-> "data:image/png;base64," \o Str(reply.field)], 200), calls)

\* safe without its catch: the exception reaches the handler's top-level guard
safe_rethrow(outcome, provider) ==
  IF outcome.thrown
    THEN json([error |-> "Proxy fatal error.",
               details |-> Or(outcome.message, "Error"),
               status |-> "fatal"], 500)
    ELSE outcome.resp

\* safe(fn, provider): the dispatch wrapper around one adapter run
safe(outcome, provider) ==
  IF outcome.thrown
    THEN json([error |-> "Interference detected in " \o Str(provider) \o " sub-link.",
               details |-> Or(outcome.message, "Error"),
               status |-> "interference"], 502)
    ELSE outcome.resp

\* prompt.substring(0, 50)
substring50(prompt) == IF Len(prompt) > 50 THEN SubSeq(prompt, 1, 50) ELSE prompt

\* demoHandler indexing mockResponses by the provider instead of the type
demoHandler_byProvider(provider, type, payload, now) ==
  LET prompt == Or(payload.prompt, "")
      default == "Processed: " \o substring50(prompt) \o "... [" \o Str(provider)
                 \o " | " \o Str(type) \o "]"
  IN  json([result |-> default, mode |-> "DEMO", provider |-> provider,
            timestamp |-> now], 200)

\* demoHandler(provider, type, payload), new Date() reading now
demoHandler(provider, type, payload, now) ==
  LET prompt == Or(payload.prompt, "")
      default == "Processed: " \o substring50(prompt) \o "... [" \o Str(provider)
                 \o " | " \o Str(type) \o "]"
      mock == CASE type = "roadmap" ->
                     "Generated learning roadmap: Foundation -> Intermediate -> Advanced -> Mastery"
                [] type = "synthesis" ->
                     "Synthesized art direction with contemporary design principles"
                [] type = "analysis" ->
                     "Visual analysis complete. Technical composition identified."
                [] type = "image" -> "data:image/svg+xml,%3Csvg ...%3E%3C/svg%3E"
                [] type = "default" -> default
                [] OTHER -> undefined
      result == Or(mock, default)
  IN  json([result |-> result, mode |-> "DEMO", provider |-> provider,
            timestamp |-> now], 200)

-----------------------------------------------------------------------------
(* The edge handler with demo mode: the pipeline                           *)

\* a normalizer that leaves the lowercase gemini as it is
normalizeProvider_exact(provider) ==
  CASE provider = "gemini" -> "gemini"
    [] provider = "openai" -> "OpenAI"
    [] provider = "huggingface" -> "Hugging Face"
    [] provider = "stability" -> "Stability AI"
    [] OTHER -> provider

\* "Normalize provider names"
normalizeProvider(provider) ==
  CASE provider = "gemini" -> "Gemini"
    [] provider = "openai" -> "OpenAI"
    [] provider = "huggingface" -> "Hugging Face"
    [] provider = "stability" -> "Stability AI"
    [] OTHER -> provider

\* DEMO_MODE reading only the first of its two variables
DEMO_MODE_primaryOnly(e) == GetEnv(e, "DEMO_MODE") = "true"

\* const DEMO_MODE
DEMO_MODE(e) == GetEnv(e, "DEMO_MODE") = "true" \/ GetEnv(e, "VITE_DEMO_MODE") = "true"

\* the providers the "Auto-inject API keys from env" switch has a case for
EnvProviders == {"Gemini", "GeminiListModels", "OpenAI", "Hugging Face", "Stability AI"}

\* the environment default of a provider: the switch's cases
envDefault(provider, e) ==
  CASE provider \in {"Gemini", "GeminiListModels"} ->
         Or(Or(GetEnv(e, "GEMINI_API_KEY"), GetEnv(e, "VITE_GEMINI_API_KEY")), "")
    [] provider = "OpenAI" ->
         Or(Or(GetEnv(e, "OPENAI_API_KEY"), GetEnv(e, "VITE_OPENAI_API_KEY")), "")
    [] provider = "Hugging Face" ->
         Or(Or(GetEnv(e, "HF_API_KEY"), GetEnv(e, "HUGGINGFACE_API_KEY")), "")
    [] provider = "Stability AI" ->
         Or(Or(GetEnv(e, "STABILITY_API_KEY"), GetEnv(e, "STABILITYAI_API_KEY")), "")
    [] OTHER -> undefined

\* whether the handler reads the environment default keys for this request
envLookup(provider, apiKey, e) ==
  Falsy(apiKey) /\ ~DEMO_MODE(e) /\ provider \in EnvProviders

\* the injection without its !apiKey test: the environment overrides the request
resolveApiKey_envFirst(provider, apiKey, e) ==
  LET injected == IF ~DEMO_MODE(e) /\ provider \in EnvProviders
                       /\ Truthy(envDefault(provider, e))
                    THEN envDefault(provider, e) ELSE apiKey
  IN  IF DEMO_MODE(e) /\ Falsy(injected) THEN "DEMO_MODE_KEY" ELSE injected

\* the injection without its !DEMO_MODE test: the environment is read in demo mode
resolveApiKey_envInDemo(provider, apiKey, e) ==
  LET injected == IF Falsy(apiKey) /\ provider \in EnvProviders
                    THEN envDefault(provider, e) ELSE apiKey
  IN  IF DEMO_MODE(e) /\ Falsy(injected) THEN "DEMO_MODE_KEY" ELSE injected

\* apiKey after "Auto-inject API keys from env" and the demo placeholder
resolveApiKey(provider, apiKey, e) ==
  LET injected == IF envLookup(provider, apiKey, e) THEN envDefault(provider, e)
                  ELSE apiKey
  IN  IF DEMO_MODE(e) /\ Falsy(injected) THEN "DEMO_MODE_KEY" ELSE injected

\* the validation without its !apiKey test
invalidRequest_noKey(provider, type, payload, apiKey) ==
  Falsy(provider) \/ Falsy(type) \/ ~payload.def \/ Falsy(payload.prompt)

\* the validation of provider, type, payload.prompt and apiKey
invalidRequest(provider, type, payload, apiKey) ==
  Falsy(provider) \/ Falsy(type) \/ ~payload.def \/ Falsy(payload.prompt) \/ Falsy(apiKey)

\* the switch (provider) that dispatches to one adapter inside safe()
dispatch(provider, apiKey, type, payload, reply) ==
  CASE provider = "Gemini" ->
         [adapter |-> "handleGemini", outcome |-> handleGemini(apiKey, type, payload, reply)]
    [] provider = "OpenAI" ->
         [adapter |-> "handleOpenAI", outcome |-> handleOpenAI(apiKey, type, payload, reply)]
    [] provider = "Hugging Face" ->
         [adapter |-> "handleHuggingFace", outcome |-> handleHuggingFace(apiKey, type, payload, reply)]
    [] provider = "Stability AI" ->
         [adapter |-> "handleStability", outcome |-> handleStability(apiKey, type, payload, reply)]
    [] provider = "GeminiListModels" ->
         [adapter |-> "listGeminiModels", outcome |-> listGeminiModels(apiKey, reply)]
    [] OTHER ->
         [adapter |-> undefined,
          outcome |-> Returned(json([error |-> Str(provider) \o " is not yet supported.",
                                     status |-> "unsupported"], 501), << >>)]

\* one stage the handler went through: its name and the value it worked on
Stage(name, value) == [stage |-> name, value |-> value]

\* the adapter functions a dispatch ran, in the order they were entered
Invoked(d) ==
  <<Stage("adapter", d.adapter)>>
  \o [i \in 1..Len(d.outcome.delegated) |-> Stage("adapter", d.outcome.delegated[i])]

\* a handler that looks the provider up in the switch before the demo return
handler_capabilityFirst(r, e, reply, now, checked) ==
  IF r.method = "OPTIONS"
    THEN IF checked
           THEN Out(NoResponse, <<Stage("rejected", NullBodyTypeError)>>, << >>)
           ELSE Out(json(<< >>, 204), << >>, << >>)
  ELSE IF r.method # "POST"
    THEN Out(json([error |-> "Method Not Allowed"], 405), << >>, << >>)
  ELSE IF r.body = "invalid"
    THEN Out(json([error |-> "Invalid JSON in request body.",
                   details |-> JsonSyntaxError, status |-> "invalid_json"], 400),
             <<Stage("parse", "invalid")>>, << >>)
  ELSE IF r.body = "null"
    THEN Out(json([error |-> "Proxy fatal error.", details |-> DestructureTypeError,
                   status |-> "fatal"], 500),
             <<Stage("parse", "null")>>, << >>)
  ELSE
    LET provider == normalizeProvider(r.provider)
        apiKey == resolveApiKey(provider, r.apiKey, e)
        before == <<Stage("parse", "object"), Stage("normalize", Str(provider))>>
                  \o (IF envLookup(provider, r.apiKey, e)
                        THEN <<Stage("envLookup", Str(provider))>> ELSE << >>)
                  \o <<Stage("credential", Str(apiKey)), Stage("validate", Str(provider))>>
        d == dispatch(provider, apiKey, r.type, r.payload, reply)
    IN  IF invalidRequest(provider, r.type, r.payload, apiKey)
          THEN Out(json([error |-> "Missing provider, API key, request type, or prompt.",
                         details |-> IF DEMO_MODE(e) THEN "Demo mode enabled"
                                     ELSE "Check environment variables",
                         status |-> "invalid_request"], 400),
                   before, << >>)
        ELSE IF d.adapter = undefined
          THEN Out(d.outcome.resp, before \o <<Stage("unsupported", provider)>>, << >>)
        ELSE IF DEMO_MODE(e)
          THEN Out(demoHandler(provider, r.type, r.payload, now),
                   before \o <<Stage("demo", provider)>>, << >>)
        ELSE Out(safe(d.outcome, provider),
                 before \o Invoked(d) \o <<Stage("key", apiKey)>>
                        \o (IF d.outcome.thrown
                              THEN <<Stage("thrown", d.outcome.message)>> ELSE << >>),
                 d.outcome.calls)

\* export default async function handler(req), under configuration e
handler(r, e, reply, now, checked) ==
  IF r.method = "OPTIONS"
    THEN IF checked
           THEN Out(NoResponse, <<Stage("rejected", NullBodyTypeError)>>, << >>)
           ELSE Out(json(<< >>, 204), << >>, << >>)
  ELSE IF r.method # "POST"
    THEN Out(json([error |-> "Method Not Allowed"], 405), << >>, << >>)
  ELSE IF r.body = "invalid"
    THEN Out(json([error |-> "Invalid JSON in request body.",
                   details |-> JsonSyntaxError, status |-> "invalid_json"], 400),
             <<Stage("parse", "invalid")>>, << >>)
  ELSE IF r.body = "null"
    THEN Out(json([error |-> "Proxy fatal error.", details |-> DestructureTypeError,
                   status |-> "fatal"], 500),
             <<Stage("parse", "null")>>, << >>)
  ELSE
    LET provider == normalizeProvider(r.provider)
        apiKey == resolveApiKey(provider, r.apiKey, e)
        before == <<Stage("parse", "object"), Stage("normalize", Str(provider))>>
                  \o (IF envLookup(provider, r.apiKey, e)
                        THEN <<Stage("envLookup", Str(provider))>> ELSE << >>)
                  \o <<Stage("credential", Str(apiKey)), Stage("validate", Str(provider))>>
        d == dispatch(provider, apiKey, r.type, r.payload, reply)
    IN  IF invalidRequest(provider, r.type, r.payload, apiKey)
          THEN Out(json([error |-> "Missing provider, API key, request type, or prompt.",
                         details |-> IF DEMO_MODE(e) THEN "Demo mode enabled"
                                     ELSE "Check environment variables",
                         status |-> "invalid_request"], 400),
                   before, << >>)
        ELSE IF DEMO_MODE(e)
          THEN Out(demoHandler(provider, r.type, r.payload, now),
                   before \o <<Stage("demo", provider)>>, << >>)
        ELSE IF d.adapter = undefined
          THEN Out(d.outcome.resp, before \o <<Stage("unsupported", provider)>>, << >>)
        ELSE Out(safe(d.outcome, provider),
                 before \o Invoked(d) \o <<Stage("key", apiKey)>>
                        \o (IF d.outcome.thrown
                              THEN <<Stage("thrown", d.outcome.message)>> ELSE << >>),
                 d.outcome.calls)

-----------------------------------------------------------------------------
(* api/proxy.ts                                                            *)

JsonHeaders == [ContentType |-> "application/json"]

\* new Response(JSON.stringify(body), { status, headers })
Response(body, status, headers) ==
  [status |-> status, text |-> undefined, body |-> JSONstringify(body),
   headers |-> headers]

\* new Response(text, { status })
TextResponse(text, status) ==
  [status |-> status, text |-> text, body |-> << >>, headers |-> << >>]

\* new Error(m).message
ErrorMessage(m) == IF m = undefined THEN "" ELSE m

\* provider.toUpperCase().replace(/\s/g, '_') on the model's provider strings
toUpperCaseUnderscore(provider) ==
  CASE provider = "" -> ""
    [] provider \in {"gemini", "Gemini"} -> "GEMINI"
    [] provider \in {"openai", "OpenAI"} -> "OPENAI"
    [] provider = "huggingface" -> "HUGGINGFACE"
    [] provider = "Hugging Face" -> "HUGGING_FACE"
    [] provider = "stability" -> "STABILITY"
    [] provider = "Stability AI" -> "STABILITY_AI"
    [] provider = "GeminiListModels" -> "GEMINILISTMODELS"
    [] provider = "DreamStudio" -> "DREAMSTUDIO"
    [] provider = "DeepAI" -> "DEEPAI"
    [] provider = "NanoBanana" -> "NANOBANANA"
    [] provider = "Artbreeder" -> "ARTBREEDER"
    [] provider = "Midjourney" -> "MIDJOURNEY"
    [] provider = "RunwayML" -> "RUNWAYML"
    [] provider = "Replicate" -> "REPLICATE"
    [] provider = "Leonardo" -> "LEONARDO"

proxy_envKeyName(provider) == toUpperCaseUnderscore(provider) \o "_API_KEY"

\* apiKey after "Support environment variable defaults for a 'free tier'"
proxy_resolveApiKey(provider, apiKey, e) ==
  LET defaultKey == GetEnv(e, proxy_envKeyName(provider))
  IN  IF (Falsy(apiKey) \/ apiKey = "DEFAULT") /\ Truthy(defaultKey)
        THEN defaultKey ELSE apiKey

proxy_handleGeneric(provider, key, type, payload) ==
  Returned(Response([error |-> Str(provider) \o " expansion in progress. This engine is currently restricted to textual synthesis."],
                    501, << >>), << >>)

proxy_handleGemini(key, type, payload, reply) ==
  LET model == IF type = "roadmap" THEN "gemini-1.5-pro" ELSE "gemini-1.5-flash"
      url == "https://generativelanguage.googleapis.com/v1beta/models/" \o model
             \o ":generateContent?key=" \o Str(key)
      calls == <<Call(url, "POST", undefined)>>
  IN  IF ~reply.fetchOk THEN Thrown(FetchFailed, calls)
      ELSE IF ~reply.jsonOk THEN Thrown(JsonSyntaxError, calls)
      ELSE IF Truthy(reply.message) THEN Thrown(ErrorMessage(reply.message), calls)
      ELSE Returned(Response([result |-> Or(reply.field, "")], 200, JsonHeaders), calls)

proxy_handleOpenAI(key, type, payload, reply) ==
  LET isImage == type = "image"
      url == IF isImage THEN "https://api.openai.com/v1/images/generations"
             ELSE "https://api.openai.com/v1/chat/completions"
      calls == <<Call(url, "POST", "Bearer " \o Str(key))>>
      output == IF isImage THEN "data:image/png;base64," \o Str(reply.field)
                ELSE reply.field
  IN  IF ~reply.fetchOk THEN Thrown(FetchFailed, calls)
      ELSE IF ~reply.jsonOk THEN Thrown(JsonSyntaxError, calls)
      ELSE IF Truthy(reply.message) THEN Thrown(ErrorMessage(reply.message), calls)
      ELSE Returned(Response([result |-> output], 200, JsonHeaders), calls)

proxy_handleStability(key, type, payload, reply) ==
  LET url == "https://api.stability.ai/v1/generation/stable-diffusion-xl-1024-v1-0/text-to-image"
      calls == <<Call(url, "POST", "Bearer " \o Str(key))>>
  IN  IF type = "roadmap"
        THEN Delegated("handleGeneric",
                       proxy_handleGeneric("Stability AI Text", key, type, payload))
      ELSE IF ~reply.fetchOk THEN Thrown(FetchFailed, calls)
      ELSE IF ~reply.jsonOk THEN Thrown(JsonSyntaxError, calls)
      ELSE IF Truthy(reply.message) THEN Thrown(ErrorMessage(reply.message), calls)
      ELSE Returned(Response([result |-> "data:image/png;base64," \o Str(reply.field)],
                             200, JsonHeaders), calls)

proxy_handleHuggingFace(key, type, payload, reply) ==
  LET model == IF type = "image" THEN "runwayml/stable-diffusion-v1-5"
               ELSE "mistralai/Mistral-7B-Instruct-v0.2"
      url == "https://router.huggingface.co/models/" \o model
      calls == <<Call(url, "POST", "Bearer " \o Str(key))>>
      text == Or(reply.field, IF reply.isArray THEN "[{}]" ELSE "{}")
  IN  IF ~reply.fetchOk THEN Thrown(FetchFailed, calls)
      ELSE IF ~reply.ok
        THEN Thrown(Or(reply.message, "HF error: " \o ToString(reply.status)), calls)
      ELSE IF type = "image"
        THEN Returned(Response([result |-> "data:image/png;base64," \o arrayBufferToBase64(reply.field)],
                               200, JsonHeaders), calls)
      ELSE IF ~reply.jsonOk THEN Thrown(JsonSyntaxError, calls)
      ELSE Returned(Response([result |-> text], 200, JsonHeaders), calls)

proxy_handleDeepAI(key, type, payload, reply) ==
  LET calls == <<Call("https://api.deepai.org/api/text2img", "POST", "api-key " \o Str(key))>>
  IN  IF type = "roadmap"
        THEN Delegated("handleGeneric",
                       proxy_handleGeneric("DeepAI Text", key, type, payload))
      ELSE IF ~reply.fetchOk THEN Thrown(FetchFailed, calls)
      ELSE IF ~reply.jsonOk THEN Thrown(JsonSyntaxError, calls)
      ELSE IF Truthy(reply.message) THEN Thrown(ErrorMessage(reply.message), calls)
      ELSE Returned(Response([result |-> reply.field], 200, JsonHeaders), calls)

proxy_handleNanoBanana(key, type, payload, reply) ==
  LET calls == <<Call("https://api.nanobanana.com/v1/generate", "POST", "Bearer " \o Str(key))>>
  IN  IF ~reply.fetchOk THEN Thrown(FetchFailed, calls)
      ELSE IF ~reply.jsonOk THEN Thrown(JsonSyntaxError, calls)
      ELSE Returned(Response([result |-> reply.field], 200, JsonHeaders), calls)

proxy_handleRunway(key, type, payload) ==
  Returned(Response([error |-> "RunwayML requires a persistent socket/polling which is restricted in this edge environment. Please use OpenAI or Stability for real-time deconstruction."],
                    501, << >>), << >>)

proxy_handleArtbreeder(key, type, payload) ==
  Returned(Response([error |-> "Artbreeder orchestration requires a valid mixer session. Please manifest utilizing the OpenAI or Stability engines for immediate deconstruction."],
                    501, << >>), << >>)

\* handleMidjourney insisting on a real credential before it answers
proxy_handleMidjourney_checked(key, type, payload) ==
  IF key = "DEFAULT" THEN Thrown("Midjourney API key required.", << >>)
  ELSE Returned(Response([error |-> "Midjourney orchestration is strictly restricted to valid Discord-bound tokens. Please ensure your Registry credentials are valid or utilize the Gemini engine."],
                         501, << >>), << >>)

proxy_handleMidjourney(key, type, payload) ==
  Returned(Response([error |-> "Midjourney orchestration is strictly restricted to valid Discord-bound tokens. Please ensure your Registry credentials are valid or utilize the Gemini engine."],
                    501, << >>), << >>)

proxy_handleReplicate(key, type, payload) ==
  IF Falsy(key) THEN Thrown("Replicate API key required.", << >>)
  ELSE Returned(Response([error |-> "Replicate models require async polling not supported in this synchronous edge proxy. Please use Stability AI for immediate results."],
                         501, << >>), << >>)

\* safeHandle(fn, provider)
safeHandle(outcome, provider) ==
  IF outcome.thrown
    THEN Response([error |-> "Interference detected in " \o Str(provider) \o " sub-link.",
                   details |-> outcome.message, status |-> "interference"],
                  502, JsonHeaders)
    ELSE outcome.resp

\* the switch (provider) of api/proxy.ts
proxy_dispatch(provider, apiKey, type, payload, reply) ==
  CASE provider = "Gemini" ->
         [adapter |-> "handleGemini", outcome |-> proxy_handleGemini(apiKey, type, payload, reply)]
    [] provider = "OpenAI" ->
         [adapter |-> "handleOpenAI", outcome |-> proxy_handleOpenAI(apiKey, type, payload, reply)]
    [] provider \in {"Stability AI", "DreamStudio"} ->
         [adapter |-> "handleStability", outcome |-> proxy_handleStability(apiKey, type, payload, reply)]
    [] provider = "Hugging Face" ->
         [adapter |-> "handleHuggingFace", outcome |-> proxy_handleHuggingFace(apiKey, type, payload, reply)]
    [] provider = "DeepAI" ->
         [adapter |-> "handleDeepAI", outcome |-> proxy_handleDeepAI(apiKey, type, payload, reply)]
    [] provider = "NanoBanana" ->
         [adapter |-> "handleNanoBanana", outcome |-> proxy_handleNanoBanana(apiKey, type, payload, reply)]
    [] provider = "Artbreeder" ->
         [adapter |-> "handleArtbreeder", outcome |-> proxy_handleArtbreeder(apiKey, type, payload)]
    [] provider = "Midjourney" ->
         [adapter |-> "handleMidjourney", outcome |-> proxy_handleMidjourney(apiKey, type, payload)]
    [] provider = "RunwayML" ->
         [adapter |-> "handleRunway", outcome |-> proxy_handleRunway(apiKey, type, payload)]
    [] provider = "Replicate" ->
         [adapter |-> "handleReplicate", outcome |-> proxy_handleReplicate(apiKey, type, payload)]
    [] OTHER ->
         [adapter |-> "handleGeneric", outcome |-> proxy_handleGeneric(provider, apiKey, type, payload)]

\* the top-level catch of api/proxy.ts
proxy_fatal(message) ==
  Response([error |-> "Atelier Protocol Interference: "
                      \o Or(message, "Quantum instability detected.")],
           500, JsonHeaders)

ToUpperCaseTypeError == "Cannot read properties of undefined (reading 'toUpperCase')"

\* a handler without the method test: it reads the body of every request
proxy_handler_anyMethod(r, e, reply) ==
  IF r.body \in {"invalid", "unread"}
    THEN Out(proxy_fatal(JsonSyntaxError), <<Stage("parse", "invalid")>>, << >>)
  ELSE IF r.body = "null"
    THEN Out(proxy_fatal(DestructureTypeError), <<Stage("parse", "null")>>, << >>)
  ELSE IF r.provider = undefined
    THEN Out(proxy_fatal(ToUpperCaseTypeError),
             <<Stage("parse", "object"), Stage("envLookup", "undefined")>>, << >>)
  ELSE
    LET provider == r.provider
        apiKey == proxy_resolveApiKey(provider, r.apiKey, e)
        before == <<Stage("parse", "object"), Stage("envLookup", provider),
                    Stage("credential", Str(apiKey)), Stage("validate", provider)>>
        d == proxy_dispatch(provider, apiKey, r.type, r.payload, reply)
    IN  IF Falsy(provider) \/ Falsy(apiKey) \/ Falsy(r.type) \/ ~r.payload.def
          THEN Out(Response([error |-> "Missing " \o Or(provider, "AI")
                                       \o " API key. Please update your Vault."],
                            400, << >>),
                   before, << >>)
        ELSE Out(safeHandle(d.outcome, provider),
                 before \o Invoked(d) \o <<Stage("key", apiKey)>>
                        \o (IF d.outcome.thrown
                              THEN <<Stage("thrown", d.outcome.message)>> ELSE << >>),
                 d.outcome.calls)

\* export default async function handler(req) of api/proxy.ts
proxy_handler(r, e, reply) ==
  IF r.method # "POST" THEN Out(TextResponse("Method Not Allowed", 405), << >>, << >>)
  ELSE IF r.body = "invalid"
    THEN Out(proxy_fatal(JsonSyntaxError), <<Stage("parse", "invalid")>>, << >>)
  ELSE IF r.body = "null"
    THEN Out(proxy_fatal(DestructureTypeError), <<Stage("parse", "null")>>, << >>)
  ELSE IF r.provider = undefined
    THEN Out(proxy_fatal(ToUpperCaseTypeError),
             <<Stage("parse", "object"), Stage("envLookup", "undefined")>>, << >>)
  ELSE
    LET provider == r.provider
        apiKey == proxy_resolveApiKey(provider, r.apiKey, e)
        before == <<Stage("parse", "object"), Stage("envLookup", provider),
                    Stage("credential", Str(apiKey)), Stage("validate", provider)>>
        d == proxy_dispatch(provider, apiKey, r.type, r.payload, reply)
    IN  IF Falsy(provider) \/ Falsy(apiKey) \/ Falsy(r.type) \/ ~r.payload.def
          THEN Out(Response([error |-> "Missing " \o Or(provider, "AI")
                                       \o " API key. Please update your Vault."],
                            400, << >>),
                   before, << >>)
        ELSE Out(safeHandle(d.outcome, provider),
                 before \o Invoked(d) \o <<Stage("key", apiKey)>>
                        \o (IF d.outcome.thrown
                              THEN <<Stage("thrown", d.outcome.message)>> ELSE << >>),
                 d.outcome.calls)

-----------------------------------------------------------------------------
(* The endpoint as a state machine: a request arrives, one of the two      *)
(* handlers runs on it to completion, the response is delivered.           *)

NoRequest == Bodyless("", "none")

\* no concurrent invocations are followed
NoFlight == << >>

\* the client is not part of the run
Unmounted ==
  /\ state = << >> /\ mode = "" /\ promptField = ""
  /\ sessionInitialized = FALSE /\ sessionFingerprint = ""
  /\ localStorage = << >> /\ pending = << >> /\ timers = 0 /\ made = << >>
  /\ services = "none"

\* no fetch was made, so nothing was received
NoReply == Reply(FALSE, FALSE, -1, FALSE, undefined, undefined, FALSE)

NoPrev ==
  [req |-> NoRequest, resp |-> NoResponse, log |-> << >>, net |-> << >>,
   upstream |-> NoReply, impl |-> "none"]

\* what the handler's fetch received: the upstream's reply when it called out
Received(calls, reply) == IF calls = << >> THEN NoReply ELSE reply

Init ==
  /\ env \in EnvConfigs
  /\ phase = "idle"
  /\ req = NoRequest
  /\ impl = "none"
  /\ resp = NoResponse
  /\ log = << >>
  /\ net = << >>
  /\ upstream = NoReply
  /\ prev = NoPrev
  /\ flight = NoFlight /\ Unmounted

\* a request reaches the endpoint
Arrive ==
  /\ phase = "idle"
  /\ \E r \in Requests : req' = r
  /\ phase' = "pending"
  /\ UNCHANGED <<env, impl, resp, log, net, upstream, prev>>
  /\ UNCHANGED <<flight, appVars>>

\* the edge handler with demo mode serves the request
Handle ==
  /\ phase = "pending"
  /\ \E reply \in Replies, now \in Times, checked \in ResponseChecks :
       LET out == handler(req, env, reply, now, checked)
       IN  /\ resp' = out.resp
           /\ log' = out.log
           /\ net' = out.calls
           /\ upstream' = Received(out.calls, reply)
  /\ impl' = "edge"
  /\ phase' = "done"
  /\ UNCHANGED <<env, req, prev>>
  /\ UNCHANGED <<flight, appVars>>

\* api/proxy.ts serves the request
ProxyHandle ==
  /\ phase = "pending"
  /\ \E reply \in Replies :
       LET out == proxy_handler(req, env, reply)
       IN  /\ resp' = out.resp
           /\ log' = out.log
           /\ net' = out.calls
           /\ upstream' = Received(out.calls, reply)
  /\ impl' = "proxy"
  /\ phase' = "done"
  /\ UNCHANGED <<env, req, prev>>
  /\ UNCHANGED <<flight, appVars>>

\* the response is sent; nothing of the request outlives it
Deliver ==
  /\ phase = "done"
  /\ phase' = "idle"
  /\ req' = NoRequest
  /\ impl' = "none"
  /\ resp' = NoResponse
  /\ log' = << >>
  /\ net' = << >>
  /\ upstream' = NoReply
  /\ UNCHANGED <<env, prev>>
  /\ UNCHANGED <<flight, appVars>>

Next == Arrive \/ Handle \/ ProxyHandle \/ Deliver

Spec == Init /\ [][Next]_vars

-----------------------------------------------------------------------------
(* Two requests, one after the other, served by the edge handler: the      *)
(* earlier request and its response are kept for comparison.               *)

PairEnvConfigs == {e \in EnvConfigs : DOMAIN e \subseteq DemoNames}

PairRequests ==
  [method : {"POST"}, body : {"object"}, provider : {"Gemini", "Stability AI"},
   apiKey : {undefined, UserKey}, type : {"text", "image", "roadmap", "analysis"},
   payload : {[def |-> TRUE, prompt |-> p] : p \in {ShortPrompt, LongPromptA, LongPromptB}}]

InitPair ==
  /\ env \in PairEnvConfigs
  /\ phase = "idle"
  /\ req = NoRequest
  /\ impl = "none"
  /\ resp = NoResponse
  /\ log = << >>
  /\ net = << >>
  /\ upstream = NoReply
  /\ prev = NoPrev
  /\ flight = NoFlight /\ Unmounted

ArrivePair ==
  /\ phase = "idle"
  /\ \E r \in PairRequests : req' = r
  /\ phase' = "pending"
  /\ UNCHANGED <<env, impl, resp, log, net, upstream, prev>>
  /\ UNCHANGED <<flight, appVars>>

\* the response is sent; the observer remembers the exchange
DeliverKeep ==
  /\ phase = "done"
  /\ prev' = [req |-> req, resp |-> resp, log |-> log, net |-> net,
               upstream |-> upstream, impl |-> impl]
  /\ phase' = "idle"
  /\ req' = NoRequest
  /\ impl' = "none"
  /\ resp' = NoResponse
  /\ log' = << >>
  /\ net' = << >>
  /\ upstream' = NoReply
  /\ UNCHANGED env
  /\ UNCHANGED <<flight, appVars>>

NextPair == ArrivePair \/ Handle \/ DeliverKeep

SpecPair == InitPair /\ [][NextPair]_vars

TypeOK ==
  /\ phase \in {"idle", "pending", "awaiting", "done"}
  /\ impl \in {"none", "edge", "proxy"}
  /\ phase = "done" <=> impl # "none"

-----------------------------------------------------------------------------
(* Vocabulary of the properties                                            *)

Done == phase = "done"

Edge == Done /\ impl = "edge"

Proxy == Done /\ impl = "proxy"

\* a POST whose body parsed to an object
Parsed == req.method = "POST" /\ req.body = "object"

HasResult == Has(resp.body, "result")

HasError == Has(resp.body, "error")

Tag == IF Has(resp.body, "status") THEN resp.body.status ELSE undefined

Went(stage) == \E i \in DOMAIN log : log[i].stage = stage

StageValue(stage) == log[CHOOSE i \in DOMAIN log : log[i].stage = stage].value

AdapterInvoked == Went("adapter")

NoUpstreamCall == net = << >>

HasPrompt == req.payload.def /\ Truthy(req.payload.prompt)

\* demo mode as the configuration states it
DemoEnabled == GetEnv(env, "DEMO_MODE") = "true" \/ GetEnv(env, "VITE_DEMO_MODE") = "true"

\* the provider the edge handler works on after alias normalization
Canonical == normalizeProvider(req.provider)

StartsWith(s, prefix) == Len(s) >= Len(prefix) /\ SubSeq(s, 1, Len(prefix)) = prefix

-----------------------------------------------------------------------------
(* C1: every POST the edge handler answers has exactly one of `result`     *)
(* and `error` in the response body, never both and never neither.         *)
(* The code breaks it: handleOpenAI answers {} when the upstream reply     *)
(* lacks the extracted field, listGeminiModels answers { models }.         *)
C1_ExactlyOneOfResultError ==
  (Edge /\ req.method = "POST") => (HasResult /\ ~HasError) \/ (HasError /\ ~HasResult)

(* C2: an exception thrown while an adapter runs is caught by the dispatch *)
(* wrapper (safe, safeHandle): the response is HTTP 502, tagged by the     *)
(* wrapper (`interference`, the code's tag of the upstream_failure kind),  *)
(* its message names the provider, it carries the error and no result, and *)
(* it is never the 500 of the top-level guard.                             *)
C2_AdapterExceptionIs502 ==
  (Done /\ Went("thrown")) =>
    /\ resp.status = 502
    /\ Tag = "interference"
    /\ HasError /\ ~HasResult
    /\ resp.body.error = "Interference detected in "
                         \o (IF impl = "edge" THEN Canonical ELSE req.provider)
                         \o " sub-link."
    /\ resp.body.details = StageValue("thrown")
    /\ Tag # "fatal" /\ resp.status # 500

C2_Witness ==
  /\ Edge /\ Went("thrown") /\ resp.status = 502
  /\ StageValue("adapter") = "handleOpenAI"
  /\ net # << >>

(* C3: with demo mode off, a valid request for a (provider, kind) pair the *)
(* provider does not support (Stability AI supports image only; a provider *)
(* without an adapter supports nothing) is answered `unsupported`/501      *)
(* without any adapter being invoked and without an outbound call.         *)
(* The code breaks it: handleStability is invoked, throws, and safe turns  *)
(* the exception into 502 `interference`.                                  *)
KindUnsupported ==
  \/ Canonical = "Stability AI" /\ req.type # "image"
  \/ Canonical \notin {"Gemini", "OpenAI", "Hugging Face", "Stability AI", "GeminiListModels"}

C3_UnsupportedKindIs501 ==
  (Edge /\ Parsed /\ ~DemoEnabled /\ Truthy(req.provider) /\ Truthy(req.type)
     /\ HasPrompt /\ Truthy(req.apiKey) /\ KindUnsupported) =>
    /\ resp.status = 501
    /\ Tag = "unsupported"
    /\ ~AdapterInvoked
    /\ NoUpstreamCall

(* C4: a request whose body lacks provider, type or payload.prompt (or has *)
(* them empty) is answered `invalid_request`/400, and neither the lookup   *)
(* of the environment default keys, nor an adapter, nor an outbound call   *)
(* happens for it.                                                         *)
(* The code breaks it: the edge handler reads the environment keys before  *)
(* it validates; api/proxy.ts answers 500 when provider is missing and     *)
(* does not check payload.prompt at all.                                   *)
C4_InvalidRequestBeforeCredentials ==
  (Done /\ Parsed /\ (Falsy(req.provider) \/ Falsy(req.type) \/ ~HasPrompt)) =>
    /\ resp.status = 400
    /\ impl = "edge" => Tag = "invalid_request"
    /\ ~Went("envLookup")
    /\ ~AdapterInvoked
    /\ NoUpstreamCall

(* C5: api/proxy.ts answers a request for Midjourney, RunwayML, Artbreeder *)
(* or Replicate, of every kind and with every supplied credential, with    *)
(* HTTP 501 and an error message (no result), and makes no outbound call.  *)
PermanentlyUnsupported == {"Midjourney", "RunwayML", "Artbreeder", "Replicate"}

C6_RequestKeyAlwaysWins ==
  (Done /\ AdapterInvoked /\ Truthy(req.apiKey)) => StageValue("key") = req.apiKey

(* C6 amended: the request's non-empty apiKey is the key handed to the     *)
(* adapter, whatever the environment holds, except for the sentinel        *)
(* "DEFAULT" in api/proxy.ts, which an existing environment default of the *)
(* provider replaces.                                                      *)
C6_RequestKeyWinsExceptDefault ==
  (Done /\ AdapterInvoked /\ Truthy(req.apiKey)) =>
    IF impl = "proxy" /\ req.apiKey = "DEFAULT"
         /\ Truthy(GetEnv(env, proxy_envKeyName(req.provider)))
      THEN StageValue("key") = GetEnv(env, proxy_envKeyName(req.provider))
      ELSE StageValue("key") = req.apiKey

C6_Witness ==
  /\ Edge /\ AdapterInvoked /\ req.apiKey = UserKey /\ Canonical = "OpenAI"
  /\ Truthy(GetEnv(env, "OPENAI_API_KEY"))
  /\ StageValue("key") = UserKey
  /\ net # << >> /\ net[1].auth = "Bearer " \o UserKey

(* C7 as stated: without a request apiKey the credential the edge handler  *)
(* resolves is the provider's environment default whenever one exists,     *)
(* also in demo mode; DEMO_MODE_KEY only when demo mode is on and neither  *)
(* a request key nor an environment default exists.                        *)
(* The code skips the environment in demo mode.                            *)
EnvDefaultExists == Truthy(envDefault(Canonical, env))

C7_EnvDefaultWinsOverDemo ==
  (Edge /\ Parsed /\ Went("credential")) =>
    /\ (Falsy(req.apiKey) /\ EnvDefaultExists) =>
         StageValue("credential") = envDefault(Canonical, env)
    /\ StageValue("credential") = "DEMO_MODE_KEY" =>
         (DemoEnabled /\ Falsy(req.apiKey) /\ ~EnvDefaultExists)

(* C7 amended: without a request apiKey and with demo mode off, the        *)
(* credential is the provider's environment default when one exists; with  *)
(* demo mode on and no request apiKey the credential is DEMO_MODE_KEY      *)
(* whether or not an environment default exists, and DEMO_MODE_KEY is used *)
(* in no other case.                                                       *)
C7_EnvDefaultUnlessDemo ==
  (Edge /\ Parsed /\ Went("credential")) =>
    /\ (Falsy(req.apiKey) /\ ~DemoEnabled /\ EnvDefaultExists) =>
         StageValue("credential") = envDefault(Canonical, env)
    /\ StageValue("credential") = "DEMO_MODE_KEY" <=> (DemoEnabled /\ Falsy(req.apiKey))

C7_Witness ==
  /\ Edge /\ Parsed /\ Went("credential") /\ Falsy(req.apiKey)
  /\ DemoEnabled /\ EnvDefaultExists
  /\ StageValue("credential") = "DEMO_MODE_KEY"

(* C8: a request without apiKey, for a provider without environment        *)
(* default, with demo mode off, is answered `invalid_request`/400 by the   *)
(* edge handler; no adapter is invoked and no outbound call is made.       *)
C8_NoCredentialIs400 ==
  (Edge /\ Parsed /\ Falsy(req.apiKey) /\ ~DemoEnabled /\ ~EnvDefaultExists) =>
    /\ resp.status = 400
    /\ Tag = "invalid_request"
    /\ HasError /\ ~HasResult
    /\ ~AdapterInvoked
    /\ NoUpstreamCall

C8_Witness ==
  /\ Edge /\ Parsed /\ Canonical = "Gemini" /\ req.type = "text" /\ HasPrompt
  /\ Falsy(req.apiKey) /\ ~DemoEnabled /\ ~EnvDefaultExists
  /\ resp.status = 400

(* C9: with demo mode on, the edge handler invokes no adapter and makes no *)
(* outbound call for any request; a request for Stability AI of kind image *)
(* with a prompt and without apiKey gets HTTP 200 and an inline image.     *)
C9_DemoModeNoIO ==
  (Edge /\ DemoEnabled) =>
    /\ ~AdapterInvoked
    /\ NoUpstreamCall
    /\ (Parsed /\ Canonical = "Stability AI" /\ req.type = "image" /\ HasPrompt
          /\ Falsy(req.apiKey)) =>
         /\ resp.status = 200
         /\ HasResult /\ ~HasError
         /\ StartsWith(resp.body.result, "data:image")

C9_Witness ==
  /\ Edge /\ DemoEnabled /\ Parsed /\ req.provider = "Stability AI"
  /\ req.type = "image" /\ HasPrompt /\ Falsy(req.apiKey)
  /\ resp.status = 200 /\ Went("demo")

(* C10 as stated: two requests of the same kind with the same inputs,      *)
(* both answered in demo mode, receive identical responses.                *)
(* The response carries the time of handling.                              *)
BothDemo ==
  /\ Edge /\ Went("demo") /\ prev # NoPrev
  /\ Has(prev.resp.body, "mode")

SameInputs ==
  /\ req.type = prev.req.type
  /\ req.provider = prev.req.provider
  /\ req.payload = prev.req.payload

C10_DemoResponsesIdentical == (BothDemo /\ SameInputs) => resp = prev.resp

(* C10 amended: in demo mode the `result` is selected by the kind and does *)
(* not depend on the time of handling nor on the credential: a fixed       *)
(* string for roadmap (and analysis), a fixed inline image for image, and  *)
(* otherwise a string built from the first 50 characters of the prompt,    *)
(* the provider and the kind; the response is tagged mode DEMO; two        *)
(* responses to the same inputs differ at most in `timestamp`.             *)
FixedKinds == {"roadmap", "image", "analysis"}

C10_DemoResultDeterministic ==
  BothDemo =>
    /\ resp.status = 200 /\ resp.body.mode = "DEMO" /\ prev.resp.body.mode = "DEMO"
    /\ SameInputs =>
         \A k \in DOMAIN resp.body \ {"timestamp"} : resp.body[k] = prev.resp.body[k]
    /\ (req.type = prev.req.type /\ req.type \in FixedKinds) =>
         resp.body.result = prev.resp.body.result
    /\ req.type = "image" => StartsWith(resp.body.result, "data:image")
    /\ req.type = "roadmap" => StartsWith(resp.body.result, "Generated learning roadmap")
    /\ req.type \notin FixedKinds =>
         /\ StartsWith(resp.body.result, "Processed: ")
         /\ (req.payload.prompt = LongPromptA /\ prev.req.payload.prompt = LongPromptB
               /\ req.type = prev.req.type /\ req.provider = prev.req.provider) =>
              resp.body.result = prev.resp.body.result
         /\ (req.payload.prompt = ShortPrompt /\ prev.req.payload.prompt = LongPromptA
               /\ req.type = prev.req.type) =>
              resp.body.result # prev.resp.body.result

C10_Witness ==
  /\ BothDemo /\ SameInputs
  /\ req.apiKey # prev.req.apiKey
  /\ resp.body.timestamp # prev.resp.body.timestamp
  /\ resp.body.result = prev.resp.body.result
  /\ req.type = "text"

-----------------------------------------------------------------------------
(* The upstream answered with a success status and a body that parses, but *)
(* the field the adapter extracts is absent (no candidates[0]...text, no   *)
(* data[0].url, no artifacts[0].base64).                                   *)
MalformedSuccess ==
  /\ upstream # NoReply
  /\ upstream.fetchOk /\ upstream.ok /\ upstream.jsonOk
  /\ upstream.field = undefined

(* C11: when the upstream answers with a success status but malformed data *)
(* (the expected field is absent), the edge handler answers 502 with the   *)
(* upstream-failure tag and never 200.                                     *)
(* The code breaks it: the adapters do not check the extracted field.      *)
C11_MalformedDataIs502 ==
  (Edge /\ AdapterInvoked /\ MalformedSuccess) =>
    (resp.status = 502 /\ Tag = "interference")

\* the body as it is sent: a text body as it is, JSON.stringify's text else
\* (never the empty string: an object without keys is sent as two braces)
BodySent ==
  IF resp.text # undefined THEN resp.text
  ELSE IF DOMAIN resp.body = {} THEN "{}" ELSE "{...}"

\* the handler's promise rejected: no Response was returned
Rejected == Done /\ resp = NoResponse

(* C12: a pre-flight (OPTIONS) request to the edge handler is answered     *)
(* with HTTP 204, an empty body and the cross-origin headers, before any   *)
(* body parsing and with no further processing.                            *)
(* The code breaks it: json({}, 204) gives the 204 the body {}, which the  *)
(* Response constructor of a standard runtime refuses with a TypeError     *)
(* thrown outside the handler's try block.                                 *)
C12_PreflightIs204Empty ==
  (Edge /\ req.method = "OPTIONS") =>
    /\ resp.status = 204
    /\ BodySent = ""
    /\ resp.headers = CorsHeaders
    /\ log = << >> /\ net = << >>

(* C13: a POST whose body is not parseable JSON is answered with HTTP 400  *)
(* and the tag invalid_json, and no credential resolution, capability      *)
(* check, adapter invocation or upstream call takes place.                 *)
(* api/proxy.ts breaks it: req.json() throws inside the outer try and the  *)
(* catch answers 500.                                                      *)
C13_InvalidJsonIs400 ==
  (Done /\ req.method = "POST" /\ req.body = "invalid") =>
    /\ resp.status = 400 /\ Tag = "invalid_json"
    /\ ~Went("envLookup") /\ ~Went("credential")
    /\ ~Went("unsupported") /\ ~AdapterInvoked
    /\ NoUpstreamCall

-----------------------------------------------------------------------------
(* Provider spellings: two requests, one after the other, served by the    *)
(* edge handler, the provider written in several cases and spacings.       *)

AliasProviders ==
  {"gemini", "Gemini", "GEMINI", " Gemini ", "openai", "OpenAI", "openAI",
   "huggingface", "Hugging Face", "hugging face"}

AliasRequests ==
  [method : {"POST"}, body : {"object"}, provider : AliasProviders,
   apiKey : {undefined, UserKey}, type : {"text", "image"},
   payload : {[def |-> TRUE, prompt |-> ShortPrompt]}]

AliasEnvConfigs ==
  {e \in EnvConfigs : DOMAIN e \subseteq {"DEMO_MODE", "GEMINI_API_KEY"}}

InitAlias ==
  /\ env \in AliasEnvConfigs
  /\ phase = "idle"
  /\ req = NoRequest
  /\ impl = "none"
  /\ resp = NoResponse
  /\ log = << >>
  /\ net = << >>
  /\ upstream = NoReply
  /\ prev = NoPrev
  /\ flight = NoFlight /\ Unmounted

ArriveAlias ==
  /\ phase = "idle"
  /\ \E r \in AliasRequests : req' = r
  /\ phase' = "pending"
  /\ UNCHANGED <<env, impl, resp, log, net, upstream, prev>>
  /\ UNCHANGED <<flight, appVars>>

NextAlias == ArriveAlias \/ Handle \/ DeliverKeep

SpecAlias == InitAlias /\ [][NextAlias]_vars

\* the spelling the provider's dispatch case is written in
CanonicalOf(provider) ==
  CASE provider \in {"gemini", "Gemini", "GEMINI", " Gemini "} -> "Gemini"
    [] provider \in {"openai", "OpenAI", "openAI"} -> "OpenAI"
    [] provider \in {"huggingface", "Hugging Face", "hugging face"} -> "Hugging Face"
    [] OTHER -> provider

\* the earlier and the present request differ at most in the provider field
SameButProvider ==
  /\ prev.req # NoRequest
  /\ req.method = prev.req.method /\ req.body = prev.req.body
  /\ req.apiKey = prev.req.apiKey /\ req.type = prev.req.type
  /\ req.payload = prev.req.payload

\* both exchanges ended the same way, the time of handling left aside
SameExchange ==
  /\ log = prev.log
  /\ net = prev.net
  /\ resp.status = prev.resp.status /\ resp.headers = prev.resp.headers
  /\ resp.text = prev.resp.text
  /\ DOMAIN resp.body = DOMAIN prev.resp.body
  /\ \A k \in DOMAIN resp.body \ {"timestamp"} : resp.body[k] = prev.resp.body[k]

(* C14: a request with provider "gemini" and an otherwise identical one    *)
(* with provider "Gemini", the upstream answering both alike, go through   *)
(* the same adapter, the same credential resolution and the same upstream  *)
(* call, and receive the same response.                                    *)
C14_GeminiAliasSameBehaviour ==
  (Edge /\ SameButProvider /\ {req.provider, prev.req.provider} = {"gemini", "Gemini"}
     /\ (upstream = prev.upstream \/ net = << >> \/ prev.net = << >>)) =>
    SameExchange

C14_Witness ==
  /\ Edge /\ SameButProvider
  /\ prev.req.provider = "gemini" /\ req.provider = "Gemini"
  /\ upstream = prev.upstream /\ upstream = ReplyOk
  /\ StageValue("adapter") = "handleGemini"
  /\ Len(net) = 1
  /\ resp.status = 200 /\ resp = prev.resp

(* C15: the provider comparison is case-insensitive and whitespace-        *)
(* tolerant: every spelling of a known provider name or alias (GEMINI,     *)
(* openAI, " Gemini ", hugging face) is normalized to the canonical        *)
(* provider and dispatched to the adapter of the canonical spelling.       *)
(* The code breaks it: only four exact lowercase aliases are rewritten and *)
(* the dispatch compares with ===.                                         *)
C15_CaseAndSpaceInsensitive ==
  (Edge /\ Parsed) =>
    /\ StageValue("normalize") = CanonicalOf(req.provider)
    /\ ~Went("unsupported")

-----------------------------------------------------------------------------
\* how many adapter functions ran for the request
AdapterCount == Cardinality({i \in DOMAIN log : log[i].stage = "adapter"})

\* the adapter's fetch failed or the upstream answered with an error status
CallFailed == upstream # NoReply /\ (~upstream.fetchOk \/ ~upstream.ok)

-----------------------------------------------------------------------------
(* Waiting for the upstream: the edge handler's run, split at the          *)
(* adapter's `await fetch(...)`.  The fetch is given no signal and no      *)
(* timeout, so the handler resumes only when the upstream answers or the   *)
(* connection fails.                                                       *)

\* the fetch is out and nothing has come back yet
AwaitedReply == Reply(FALSE, FALSE, -2, FALSE, undefined, undefined, FALSE)

\* the upstream holds the connection open and will never answer
SilentReply == Reply(FALSE, FALSE, -3, FALSE, undefined, undefined, FALSE)

WaitRequests ==
  [method : {"POST"}, body : {"object"},
   provider : {"Gemini", "OpenAI", "Stability AI", "Midjourney"},
   apiKey : {undefined, UserKey}, type : {"text", "image"},
   payload : {[def |-> TRUE, prompt |-> ShortPrompt]}]

WaitEnvConfigs ==
  {e \in EnvConfigs : DOMAIN e \subseteq {"DEMO_MODE", "GEMINI_API_KEY"}}

\* the outbound calls the handler makes for the request: fixed before any reply
Fetches(r, e) == handler(r, e, ReplyOk, "2025-01-01T00:00:00.000Z", TRUE).calls

InitWait ==
  /\ env \in WaitEnvConfigs
  /\ phase = "idle"
  /\ req = NoRequest
  /\ impl = "none"
  /\ resp = NoResponse
  /\ log = << >>
  /\ net = << >>
  /\ upstream = NoReply
  /\ prev = NoPrev
  /\ flight = NoFlight /\ Unmounted

ArriveWait ==
  /\ phase = "idle"
  /\ \E r \in WaitRequests : req' = r
  /\ phase' = "pending"
  /\ UNCHANGED <<env, impl, resp, log, net, upstream, prev>>
  /\ UNCHANGED <<flight, appVars>>

\* the handler runs until it returns or until its adapter awaits the fetch
Begin ==
  /\ phase = "pending"
  /\ IF Fetches(req, env) = << >>
       THEN /\ \E now \in Times, checked \in ResponseChecks :
                 LET out == handler(req, env, ReplyOk, now, checked)
                 IN  resp' = out.resp /\ log' = out.log
            /\ impl' = "edge" /\ phase' = "done"
            /\ UNCHANGED <<net, upstream>>
       ELSE /\ net' = Fetches(req, env)
            /\ upstream' = AwaitedReply
            /\ phase' = "awaiting"
            /\ UNCHANGED <<impl, resp, log>>
  /\ UNCHANGED <<env, req, prev>>
  /\ UNCHANGED <<flight, appVars>>

\* the upstream answers, or the connection fails
Answer ==
  /\ phase = "awaiting" /\ upstream = AwaitedReply
  /\ \E reply \in Replies : upstream' = reply
  /\ UNCHANGED <<env, phase, req, impl, resp, log, net, prev>>
  /\ UNCHANGED <<flight, appVars>>

\* the upstream accepts the connection and stays silent for good
Silence ==
  /\ phase = "awaiting" /\ upstream = AwaitedReply
  /\ upstream' = SilentReply
  /\ UNCHANGED <<env, phase, req, impl, resp, log, net, prev>>
  /\ UNCHANGED <<flight, appVars>>

\* the awaited fetch settles and the handler runs to its return
Resume ==
  /\ phase = "awaiting" /\ upstream \in Replies
  /\ \E now \in Times, checked \in ResponseChecks :
       LET out == handler(req, env, upstream, now, checked)
       IN  resp' = out.resp /\ log' = out.log
  /\ impl' = "edge"
  /\ phase' = "done"
  /\ UNCHANGED <<env, req, net, upstream, prev>>
  /\ UNCHANGED <<flight, appVars>>

NextWait == ArriveWait \/ Begin \/ Answer \/ Silence \/ Resume \/ Deliver

\* the runtime runs every step that is ready: an arrived request is handled,
\* a settled fetch resumes its handler, a response is delivered
SpecWait == InitWait /\ [][NextWait]_vars /\ WF_vars(NextWait)

(* A pending request leads to a response.                                  *)
HandlerEventuallyReturns == (phase = "pending") ~> (phase = "done")

(* C17: the adapter's outbound call is bounded by a timeout: for every     *)
(* request, also when the upstream never answers, the handler eventually   *)
(* returns a response.  Every run that keeps this promise needs a step to  *)
(* be possible while the handler awaits an upstream that stays silent.     *)
(* The code breaks it: no fetch of the handler carries a signal or a       *)
(* timeout, and nothing else resumes the handler.                          *)
C17_SilentUpstreamStillReturns ==
  (phase = "awaiting" /\ upstream = SilentReply) => ENABLED NextWait

-----------------------------------------------------------------------------
\* the handler returned a failure response
Failure == Done /\ resp.status >= 400

Tags == {"invalid_json", "invalid_request", "unsupported", "interference", "fatal"}

\* the HTTP status that goes with a status tag
StatusOf(tag) ==
  CASE tag \in {"invalid_json", "invalid_request"} -> 400
    [] tag = "unsupported" -> 501
    [] tag = "interference" -> 502
    [] tag = "fatal" -> 500

(* C18: every failure response, on every exit path of the handler (the     *)
(* response to a method other than POST and OPTIONS included), is a        *)
(* structured object with a human-readable error message and a status tag, *)
(* its HTTP status the one that goes with the tag (400, 401, 501, 502 or   *)
(* 500); no failure has an empty or an unstructured body.                  *)
(* The code breaks it: the 405 of both handlers has no tag, api/proxy.ts   *)
(* answers it in plain text and leaves the tag out of its 400, 500, 501.   *)
C18_FailuresAreStructured ==
  Failure =>
    /\ resp.text = undefined
    /\ HasError /\ Truthy(resp.body.error)
    /\ Tag \in Tags
    /\ resp.status = StatusOf(Tag)

\* the permissive cross-origin headers are on the response
CrossOriginAllowed ==
  /\ Has(resp.headers, "AccessControlAllowOrigin")
  /\ resp.headers.AccessControlAllowOrigin = "*"
  /\ Has(resp.headers, "AccessControlAllowMethods")
  /\ Has(resp.headers, "AccessControlAllowHeaders")

(* C19: every response the handler returns, success and failure alike,     *)
(* carries the permissive cross-origin headers.                            *)
(* api/proxy.ts breaks it: none of its responses carries them.             *)
C19_EveryResponseCrossOrigin ==
  (Done /\ ~Rejected) => CrossOriginAllowed

-----------------------------------------------------------------------------
\* the position of the first entry of a stage in the log, 0 when it has none
IndexOf(stage) ==
  IF Went(stage) THEN CHOOSE i \in DOMAIN log :
                        log[i].stage = stage /\ \A j \in 1..(i-1) : log[j].stage # stage
  ELSE 0

\* stage a comes before stage b whenever the request went through both
Before(a, b) == (Went(a) /\ Went(b)) => IndexOf(a) < IndexOf(b)

\* no stage is entered twice
NoStageRevisited ==
  \A i, j \in DOMAIN log : (log[i].stage = log[j].stage) => i = j

\* the providers the dispatch switch has a case for
Supported == {"Gemini", "GeminiListModels", "OpenAI", "Hugging Face", "Stability AI"}

\* provider, type and prompt are all present
FieldsPresent == Truthy(req.provider) /\ Truthy(req.type) /\ HasPrompt

-----------------------------------------------------------------------------
(* C26: a request whose method is neither POST nor OPTIONS is answered     *)
(* with HTTP 405 without its body being read, and causes no credential     *)
(* resolution, adapter invocation or outbound call.                        *)
C26_OtherMethodIs405 ==
  (Done /\ req.method \notin {"POST", "OPTIONS"}) =>
    /\ resp.status = 405
    /\ ~Went("parse")
    /\ ~Went("envLookup") /\ ~Went("credential")
    /\ ~AdapterInvoked /\ NoUpstreamCall

C26_Witness ==
  /\ Proxy /\ req.method = "GET"
  /\ resp.status = 405 /\ resp.text = "Method Not Allowed"
  /\ log = << >> /\ net = << >>

-----------------------------------------------------------------------------
(* Credentials in error bodies: two requests, one after the other, served  *)
(* by either handler; the upstream sees the credential the adapter sends   *)
(* and may quote it in its error message.                                  *)

KeyAlpha == "sk-alpha-1111"

KeyBravo == "sk-bravo-2222"

SecretRequests ==
  [method : {"POST"}, body : {"object"},
   provider : {"Gemini", "OpenAI", "Midjourney"},
   apiKey : {KeyAlpha, KeyBravo}, type : {"text"},
   payload : {NoPayload, [def |-> TRUE, prompt |-> ShortPrompt]}]

\* an error reply that quotes the credential of the call it answers
ReplyQuotingKey(key) ==
  Reply(TRUE, FALSE, 401, TRUE, "Incorrect API key provided: " \o Str(key),
        undefined, FALSE)

\* what the upstream may answer to a call made with the credential key
RepliesTo(key) == Replies \cup {ReplyQuotingKey(key)}

InitSecret ==
  /\ env \in {e \in EnvConfigs : DOMAIN e \subseteq {"GEMINI_API_KEY"}}
  /\ phase = "idle"
  /\ req = NoRequest
  /\ impl = "none"
  /\ resp = NoResponse
  /\ log = << >>
  /\ net = << >>
  /\ upstream = NoReply
  /\ prev = NoPrev
  /\ flight = NoFlight /\ Unmounted

ArriveSecret ==
  /\ phase = "idle"
  /\ \E r \in SecretRequests : req' = r
  /\ phase' = "pending"
  /\ UNCHANGED <<env, impl, resp, log, net, upstream, prev>>
  /\ UNCHANGED <<flight, appVars>>

\* the edge handler serves the request
HandleSecret ==
  /\ phase = "pending"
  /\ \E now \in Times, checked \in ResponseChecks :
       \E reply \in RepliesTo(resolveApiKey(normalizeProvider(req.provider), req.apiKey, env)) :
         LET out == handler(req, env, reply, now, checked)
         IN  /\ resp' = out.resp
             /\ log' = out.log
             /\ net' = out.calls
             /\ upstream' = Received(out.calls, reply)
  /\ impl' = "edge"
  /\ phase' = "done"
  /\ UNCHANGED <<env, req, prev>>
  /\ UNCHANGED <<flight, appVars>>

\* api/proxy.ts serves the request
ProxyHandleSecret ==
  /\ phase = "pending"
  /\ \E reply \in RepliesTo(proxy_resolveApiKey(req.provider, req.apiKey, env)) :
       LET out == proxy_handler(req, env, reply)
       IN  /\ resp' = out.resp
           /\ log' = out.log
           /\ net' = out.calls
           /\ upstream' = Received(out.calls, reply)
  /\ impl' = "proxy"
  /\ phase' = "done"
  /\ UNCHANGED <<env, req, prev>>
  /\ UNCHANGED <<flight, appVars>>

NextSecret == ArriveSecret \/ HandleSecret \/ ProxyHandleSecret \/ DeliverKeep

SpecSecret == InitSecret /\ [][NextSecret]_vars

\* t occurs in s
Contains(s, t) ==
  \E i \in 1..(Len(s) - Len(t) + 1) : SubSeq(s, i, i + Len(t) - 1) = t

\* a failure body the gateway itself built
GatewayFailure == Done /\ resp.status >= 400 /\ HasError

\* the earlier and the present request differ only in the credential's value
SameButCredential ==
  /\ prev.req # NoRequest /\ prev.impl = impl
  /\ req.provider = prev.req.provider /\ req.type = prev.req.type
  /\ req.payload = prev.req.payload
  /\ req.apiKey # prev.req.apiKey

\* the upstream behaved alike towards both: the same reply, or quoting either key
SameUpstream ==
  \/ upstream = prev.upstream
  \/ /\ upstream = ReplyQuotingKey(req.apiKey)
     /\ prev.upstream = ReplyQuotingKey(prev.req.apiKey)

(* C22: the credential is never echoed in an error body: two requests that *)
(* differ only in the credential's value and both end in a failure built   *)
(* by the gateway get identical error bodies, and no error body contains   *)
(* the credential.                                                         *)
(* The code breaks it: the wrapper relays the adapter's error message,     *)
(* which is the upstream's own text, as `details`.                         *)
C22_CredentialNeverInErrorBody ==
  GatewayFailure =>
    /\ \A k \in DOMAIN resp.body : ~Contains(resp.body[k], req.apiKey)
    /\ (SameButCredential /\ SameUpstream /\ prev.resp.status >= 400) =>
         resp.body = prev.resp.body

-----------------------------------------------------------------------------
(* Several requests in flight: every invocation of the handler has its own *)
(* req, provider, apiKey and reply; process.env is what they have in       *)
(* common.                                                                  *)

\* the invocations followed at the same time
MaxInFlight == 2

ManyRequests ==
  [method : {"POST"}, body : {"object"},
   provider : {"Gemini", "Midjourney"},
   apiKey : {undefined, UserKey}, type : {"text"},
   payload : {[def |-> TRUE, prompt |-> ShortPrompt]}]

ManyEnvConfigs ==
  {e \in EnvConfigs : DOMAIN e \subseteq {"DEMO_MODE", "GEMINI_API_KEY"}}

ManyReplies == {ReplyNetworkError, ReplyError, ReplyOk}

\* an invocation that has not started
NoInvocation ==
  [phase |-> "idle", req |-> NoRequest, apiKey |-> undefined,
   upstream |-> NoReply, resp |-> NoResponse]

InitMany ==
  /\ env \in ManyEnvConfigs
  /\ phase = "idle"
  /\ req = NoRequest
  /\ impl = "none"
  /\ resp = NoResponse
  /\ log = << >>
  /\ net = << >>
  /\ upstream = NoReply
  /\ prev = NoPrev
  /\ flight = [i \in 1..MaxInFlight |-> NoInvocation]
  /\ Unmounted

ArriveMany(i) ==
  /\ flight[i].phase = "idle"
  /\ \E r \in ManyRequests :
       flight' = [flight EXCEPT ![i] = [NoInvocation EXCEPT !.phase = "pending", !.req = r]]
  /\ UNCHANGED <<gatewayVars, appVars>>

\* a handler that keeps the key it resolved in process.env for later requests
BeginMany_cachesKey(i) ==
  /\ flight[i].phase = "pending"
  /\ LET r == flight[i].req
         provider == normalizeProvider(r.provider)
         apiKey == resolveApiKey(provider, r.apiKey, env)
     IN  /\ IF Fetches(r, env) = << >>
              THEN \E now \in Times, checked \in ResponseChecks :
                     flight' = [flight EXCEPT ![i].phase = "done",
                                  ![i].resp = handler(r, env, NoReply, now, checked).resp]
              ELSE flight' = [flight EXCEPT ![i].phase = "awaiting",
                                ![i].apiKey = apiKey,
                                ![i].upstream = AwaitedReply]
         /\ env' = IF Truthy(apiKey)
                     THEN [n \in DOMAIN env \cup {"GEMINI_API_KEY"} |->
                             IF n = "GEMINI_API_KEY" THEN apiKey ELSE env[n]]
                     ELSE env
  /\ UNCHANGED <<phase, req, impl, resp, log, net, upstream, prev, appVars>>

\* the invocation runs until it returns or until its adapter awaits the fetch
BeginMany(i) ==
  /\ flight[i].phase = "pending"
  /\ LET r == flight[i].req
         provider == normalizeProvider(r.provider)
         apiKey == resolveApiKey(provider, r.apiKey, env)
     IN  IF Fetches(r, env) = << >>
           THEN \E now \in Times, checked \in ResponseChecks :
                  flight' = [flight EXCEPT ![i].phase = "done",
                               ![i].resp = handler(r, env, NoReply, now, checked).resp]
           ELSE flight' = [flight EXCEPT ![i].phase = "awaiting",
                             ![i].apiKey = apiKey,
                             ![i].upstream = AwaitedReply]
  /\ UNCHANGED <<gatewayVars, appVars>>

\* the upstream answers the call of this invocation
AnswerMany(i) ==
  /\ flight[i].phase = "awaiting" /\ flight[i].upstream = AwaitedReply
  /\ \E reply \in ManyReplies : flight' = [flight EXCEPT ![i].upstream = reply]
  /\ UNCHANGED <<gatewayVars, appVars>>

\* the awaited fetch settles: the adapter goes on with the provider and the
\* key of its own closure, and safe() turns its outcome into the response
ResumeMany(i) ==
  /\ flight[i].phase = "awaiting" /\ flight[i].upstream \in ManyReplies
  /\ LET r == flight[i].req
         provider == normalizeProvider(r.provider)
         d == dispatch(provider, flight[i].apiKey, r.type, r.payload, flight[i].upstream)
     IN  flight' = [flight EXCEPT ![i].phase = "done",
                                  ![i].resp = safe(d.outcome, provider)]
  /\ UNCHANGED <<gatewayVars, appVars>>

DeliverMany(i) ==
  /\ flight[i].phase = "done"
  /\ flight' = [flight EXCEPT ![i] = NoInvocation]
  /\ UNCHANGED <<gatewayVars, appVars>>

NextMany ==
  \E i \in 1..MaxInFlight :
    ArriveMany(i) \/ BeginMany(i) \/ AnswerMany(i) \/ ResumeMany(i) \/ DeliverMany(i)

SpecMany == InitMany /\ [][NextMany]_vars

\* what the handler answers to a request under a configuration and a reply,
\* whatever else is in flight
OwnResponses(r, e, reply) ==
  {handler(r, e, reply, now, checked).resp : now \in Times, checked \in ResponseChecks}

(* C21: requests are handled independently.  With any number in flight   *)
(* and any interleaving, the response of each is the one the handler     *)
(* gives for its own request, the process configuration and the upstream *)
(* reply to its own call, and no step of any invocation writes the       *)
(* process configuration (the provider table is code: the switch and the *)
(* env names are not state).                                              *)
C21_RequestsIndependent ==
  /\ [](\A i \in DOMAIN flight :
          flight[i].phase = "done" =>
            flight[i].resp \in OwnResponses(flight[i].req, env, flight[i].upstream))
  /\ [][env' = env]_vars

\* two invocations of the same request overlap: one has returned on an
\* upstream error while the other still holds a good reply to its own call
C21_Witness ==
  /\ flight # NoFlight
  /\ flight[1].phase = "awaiting" /\ flight[1].upstream = ReplyOk
  /\ flight[2].phase = "done" /\ flight[2].upstream = ReplyError
  /\ flight[1].req = flight[2].req
  /\ flight[2].resp.status = 502

-----------------------------------------------------------------------------
(* The client: App, AuthManager and the services App calls                 *)

DAILY_LIMIT == 10

\* [guide, ...state.history].slice(0, 10)
HistoryLimit == 10

null == "<null>"

\* the syntheses followed at the same time
MaxSyntheses == 2

\* the roadmaps the gateway makes in one run
MaxRoadmaps == 2

\* the vault timers under way at the same time
MaxTimers == 1

\* the values of AIProvider the user switches between
AppProviders == {"OpenAI", "Gemini"}

UserId == "u1"

\* what the user types into the Manifest textarea
Prompts == {"", "old man in charcoal", "a raven via gemini"}

DataUri == "data:image/png;base64,AAAA"

\* an ArtRoadmap: its id and the length of its steps
Roadmap(id, n) == [id |-> id, steps |-> n]

\* activeRoadmap: null
NoRoadmap == Roadmap(null, 0)

\* crypto.randomUUID(), or the id the provider's JSON carries
Uuid(n) == "uuid-" \o ToString(n)

\* steps.length of the roadmaps the providers write
RoadmapSteps == {1, 3}

MaxSteps == CHOOSE n \in RoadmapSteps : \A m \in RoadmapSteps : m <= n

\* btoa(unescape(encodeURIComponent(key))).slice(0, 24): base64 of the first
\* 18 bytes of the key
keyHash(key) == IF Len(key) > 18 THEN SubSeq(key, 1, 18) ELSE key

\* computeFingerprint, over the state of the render that made the callback
computeFingerprint(s) ==
  s.user.userId \o ":" \o s.preferredProvider \o ":"
    \o keyHash(s.user.apiKeys[s.preferredProvider])

\* AuthManager.validate(): the user of the registry, keys decrypted (the
\* registry holds simpleEncrypt(key), and simpleDecrypt gives the key back);
\* the date of a run is the registry's lastResetDate
validate(ls) ==
  [userId |-> UserId, apiKeys |-> ls.apiKeys, dailyCount |-> ls.dailyCount]

\* navigateTo(v, roadmap) as the update it hands to setState
navigateTo(s, v, roadmap) ==
  [s EXCEPT !.view = v,
            !.activeRoadmap = IF roadmap = NoRoadmap THEN @ ELSE roadmap,
            !.error = null]

\* a render that shows the workspace whatever the step index is
Render_unchecked(s) == s

\* renderView: case 'workspace' sends the user back to the studio when
\* steps[currentStepIndex] is undefined
Render(s) ==
  IF /\ s.view = "workspace"
     /\ s.activeRoadmap # NoRoadmap
     /\ ~(s.currentStepIndex < s.activeRoadmap.steps)
    THEN navigateTo(s, "studio", NoRoadmap)
    ELSE s

\* a fingerprint effect that resets the session whenever it runs
fingerprintChanged_everyRun(s, fp, ran) ==
  ran /\ fp # ""

\* useEffect(..., [computeFingerprint, state.view]): the condition under
\* which the effect resets the session, given that the effect ran
fingerprintChanged(s, fp, ran) ==
  ran /\ fp # "" /\ fp # computeFingerprint(s) /\ s.view = "studio"

\* one commit of React: the batched updates s, init, fp of an event, the
\* render of the result and the fingerprint effect after it; renewed says
\* that state.user is a new object
Commit(s, init, fp, ls, renewed) ==
  LET r == Render(s)
      ran == \/ renewed
             \/ r.preferredProvider # state.preferredProvider
             \/ r.view # state.view
      reset == fingerprintChanged(r, fp, ran)
  IN  /\ state' = r
      /\ sessionInitialized' = IF reset THEN FALSE ELSE init
      /\ sessionFingerprint' = IF reset THEN "" ELSE fp
      /\ localStorage' = IF reset THEN [ls EXCEPT !.session_fp = ""] ELSE ls

\* setState(p => ...) alone
SetState(s) == Commit(s, sessionInitialized, sessionFingerprint, localStorage, FALSE)

\* what handleSynthesis reads of the render it was made in
Closure(s) ==
  [user |-> s.user, preferredProvider |-> s.preferredProvider,
   history |-> s.history]

\* no handleSynthesis call holds the slot
NoSynthesis ==
  [stage |-> "idle", hasOwnKey |-> FALSE,
   closure |-> [user |-> [userId |-> UserId, apiKeys |-> [p \in AppProviders |-> ""],
                          dailyCount |-> 0],
                preferredProvider |-> "OpenAI", history |-> << >>],
   prompt |-> "", image |-> null, finalPrompt |-> ""]

\* a promise: fulfilled with a value, or rejected with an Error
Fulfilled(v) == [thrown |-> FALSE, value |-> v, message |-> ""]

Failed(m) == [thrown |-> TRUE, value |-> undefined, message |-> m]

\* what /api/proxy answers to a client call: a failure (no connection, a
\* status that is not ok, a body with `error`) or a success with `result`
ProxyFailed == [ok |-> FALSE, result |-> undefined]

ProxyResult(r) == [ok |-> TRUE, result |-> r]

\* results of an image call: an image, a link to one (handleOpenAI answers
\* data.data[0].url), a description, an empty text (handleGemini), nothing
ImageReplies ==
  {ProxyFailed} \cup
  {ProxyResult(r) : r \in {DataUri, "https://img.example/1.png",
                           "an old man, lit from the left", "", undefined}}

\* what a roadmap call gets: a failure, prose, or the JSON of a roadmap
RoadmapReply(ok, isJson, n) == [ok |-> ok, json |-> isJson, steps |-> n]

RoadmapReplies ==
  {RoadmapReply(FALSE, FALSE, 0), RoadmapReply(TRUE, FALSE, 0)}
  \cup {RoadmapReply(TRUE, TRUE, n) : n \in RoadmapSteps}

\* APIManager.imagineImage, behind services/aiService.ts
APIManager_imagineImage(prompt, apiKey, reply) ==
  IF Falsy(apiKey) THEN Fulfilled(prompt)
  ELSE IF ~reply.ok THEN Fulfilled(prompt)
  ELSE Fulfilled(reply.result)

\* AIService.imagineImage of src/services/aiService.ts
AIService_imagineImage(prompt, apiKey, reply) ==
  IF Falsy(apiKey) THEN Failed("No API key found for provider.")
  ELSE IF ~reply.ok THEN Failed("image generation failed")
  ELSE Fulfilled(reply.result)

imagineImage(prompt, apiKey, reply) ==
  IF services = "APIManager" THEN APIManager_imagineImage(prompt, apiKey, reply)
  ELSE AIService_imagineImage(prompt, apiKey, reply)

\* APIManager.generateRoadmap: JSON.parse of prose throws inside its try
APIManager_generateRoadmap(apiKey, reply, id) ==
  IF Falsy(apiKey) THEN Failed("API key required. Update your profile settings.")
  ELSE IF ~reply.ok \/ ~reply.json THEN Failed("Engine failure.")
  ELSE Fulfilled(Roadmap(id, reply.steps))

\* AIService.generateRoadmap of src/services/aiService.ts: prose gives the
\* fallback roadmap, id: userId and steps: []
AIService_generateRoadmap(apiKey, reply, id) ==
  IF Falsy(apiKey) THEN Failed("No API key found for provider.")
  ELSE IF ~reply.ok THEN Failed("roadmap generation failed")
  ELSE IF ~reply.json THEN Fulfilled(Roadmap(UserId, 0))
  ELSE Fulfilled(Roadmap(id, reply.steps))

generateRoadmap(apiKey, reply, id) ==
  IF services = "APIManager" THEN APIManager_generateRoadmap(apiKey, reply, id)
  ELSE AIService_generateRoadmap(apiKey, reply, id)

\* array.slice(0, n)
slice(seq, n) == IF Len(seq) > n THEN SubSeq(seq, 1, n) ELSE seq

\* array.filter(h => h.id !== id)
RECURSIVE filterOut(_, _)
filterOut(seq, id) ==
  IF seq = << >> THEN << >>
  ELSE IF Head(seq).id = id THEN filterOut(Tail(seq), id)
  ELSE <<Head(seq)>> \o filterOut(Tail(seq), id)

\* Smart Provider Detection on the lower-cased text
detected(val) ==
  IF Contains(val, "dalle") \/ Contains(val, "openai") \/ Contains(val, "gpt")
    THEN "OpenAI"
  ELSE IF Contains(val, "gemini") \/ Contains(val, "bard") THEN "Gemini"
  ELSE null

\* the roadmaps an earlier session left in the history, the newest first
Old(n) == [i \in 1..n |-> Roadmap("old-" \o ToString(n + 1 - i), IF i % 2 = 1 THEN 1 ELSE 3)]

\* the registry and the further keys of localStorage a session starts
\* from, with one of these histories
Registries(histories) ==
  [apiKeys : {[p \in AppProviders |-> ""],
              [p \in AppProviders |-> IF p = "OpenAI" THEN UserKey ELSE ""]},
   dailyCount : {0},
   preferredProvider : {"OpenAI"},
   history : histories,
   session_fp : {""}]

\* useState(() => ...): the state App mounts with, over the localStorage ls
\* and sessionStorage's sketchai_vault_unlocked
Mounted(ls, unlocked) ==
  [view |-> "studio", activeRoadmap |-> NoRoadmap, currentStepIndex |-> 0,
   inputImage |-> null, preferredProvider |-> ls.preferredProvider,
   error |-> null, isProcessing |-> FALSE, history |-> ls.history,
   user |-> validate(ls), isVaultUnlocked |-> unlocked]

\* App is mounted for a logged-in user; the mount effect reads the saved
\* fingerprint and, activeRoadmap being null, leaves the session
\* uninitialized
MountedWith(histories, vault) ==
  /\ env = << >>
  /\ phase = "idle"
  /\ req = NoRequest
  /\ impl = "none"
  /\ resp = NoResponse
  /\ log = << >>
  /\ net = << >>
  /\ upstream = NoReply
  /\ prev = NoPrev
  /\ flight = NoFlight
  /\ localStorage \in Registries(histories)
  /\ \E unlocked \in vault : state = Mounted(localStorage, unlocked)
  /\ mode = "upload"
  /\ promptField = ""
  /\ sessionInitialized = FALSE
  /\ sessionFingerprint = localStorage.session_fp
  /\ pending = [k \in 1..MaxSyntheses |-> NoSynthesis]
  /\ timers = 0
  /\ made = << >>
  /\ services \in {"APIManager", "AIService"}

InitApp == MountedWith({<< >>}, {FALSE})

\* what no step of the client touches
Backstage == <<gatewayVars, flight, services>>

\* the catch of handleSynthesis, without its isProcessing: false
catch_keepsProcessing(s, message) ==
  [s EXCEPT !.error = IF Falsy(message) THEN "Failed to generate roadmap." ELSE message]

\* catch (err) of handleSynthesis
catch(s, message) ==
  [s EXCEPT !.error = IF Falsy(message) THEN "Failed to generate roadmap." ELSE message,
            !.isProcessing = FALSE]

\* the slot with the lowest number no call holds
FreeSlot == CHOOSE k \in 1..MaxSyntheses :
              /\ pending[k].stage = "idle"
              /\ \A j \in 1..(k - 1) : pending[j].stage # "idle"

\* handleSynthesis, from the click to its first await
handleSynthesis ==
  /\ state.view = "studio"
  /\ LET hasOwnKey == Truthy(state.user.apiKeys[state.preferredProvider])
         busy == [state EXCEPT !.isProcessing = TRUE, !.error = null]
     IN  IF sessionInitialized \/ state.isProcessing
           THEN UNCHANGED <<appVars>>
         ELSE IF ~hasOwnKey /\ state.user.dailyCount >= DAILY_LIMIT
           THEN /\ SetState(navigateTo(state, "limit", NoRoadmap))
                /\ UNCHANGED <<mode, promptField, pending, timers, made>>
         ELSE IF mode = "generate" /\ promptField = ""
           THEN /\ SetState(catch(busy, "Composition parameters or poem required for manifestation."))
                /\ UNCHANGED <<mode, promptField, pending, timers, made>>
         ELSE IF mode = "upload" /\ state.inputImage = null /\ promptField = ""
           THEN /\ SetState(catch(busy, "No target asset or description selected."))
                /\ UNCHANGED <<mode, promptField, pending, timers, made>>
         ELSE /\ \E k \in 1..MaxSyntheses : pending[k].stage = "idle"
              /\ pending' = [pending EXCEPT ![FreeSlot] =
                   [stage |-> IF mode = "generate" THEN "image" ELSE "roadmap",
                    hasOwnKey |-> hasOwnKey, closure |-> Closure(state),
                    prompt |-> promptField, image |-> state.inputImage,
                    finalPrompt |-> promptField]]
              /\ SetState(busy)
              /\ UNCHANGED <<mode, promptField, timers, made>>
  /\ UNCHANGED Backstage

\* what the imagineImage call of slot k returns or throws on this reply
Manifestation(k, reply) ==
  imagineImage(pending[k].prompt,
               pending[k].closure.user.apiKeys[pending[k].closure.preferredProvider],
               reply)

\* a test that takes every string the call returns for an image
startsWithDataImage_anyString(manifestation) ==
  ~manifestation.thrown /\ manifestation.value # undefined

\* manifestation.startsWith('data:image')
startsWithDataImage(manifestation) ==
  /\ ~manifestation.thrown /\ manifestation.value # undefined
  /\ StartsWith(manifestation.value, "data:image")

\* image || finalPrompt: what the roadmap request of a call carries
RoadmapSubject(p) == IF p.image # null THEN p.image ELSE p.finalPrompt

\* the await of imagineImage settles with this reply of the gateway, and
\* handleSynthesis runs on to its next await or to its catch
ImageSettlesWith(k, reply) ==
  /\ pending[k].stage = "image"
  /\ LET manifestation == Manifestation(k, reply)
         isImage == startsWithDataImage(manifestation)
         image == IF isImage THEN manifestation.value ELSE pending[k].image
         finalPrompt == IF isImage THEN pending[k].finalPrompt ELSE manifestation.value
         shown == IF isImage THEN [state EXCEPT !.inputImage = manifestation.value]
                  ELSE state
     IN  IF manifestation.thrown
           THEN /\ SetState(catch(state, manifestation.message))
                /\ pending' = [pending EXCEPT ![k] = NoSynthesis]
         ELSE IF manifestation.value = undefined
           THEN /\ SetState(catch(state, "Cannot read properties of undefined (reading 'startsWith')"))
                /\ pending' = [pending EXCEPT ![k] = NoSynthesis]
         ELSE IF image = null /\ Falsy(finalPrompt)
           THEN /\ SetState(catch(shown, "No target asset or description selected."))
                /\ pending' = [pending EXCEPT ![k] = NoSynthesis]
         ELSE /\ SetState(shown)
              /\ pending' = [pending EXCEPT ![k].stage = "roadmap",
                                            ![k].image = image,
                                            ![k].finalPrompt = finalPrompt]
  /\ UNCHANGED <<mode, promptField, timers, made>>
  /\ UNCHANGED Backstage

ImageSettles(k) == \E reply \in ImageReplies : ImageSettlesWith(k, reply)

\* a count that is also raised by a roadmap call that threw
Charged_always(p, outcome) == ~p.hasOwnKey

\* if (!hasOwnKey) AuthManager.updateUser(..., { dailyCount: ... + 1 }),
\* which follows the await of generateRoadmap inside the try
Charged(p, outcome) == ~outcome.thrown /\ ~p.hasOwnKey

\* the await of generateRoadmap settles with this reply of the gateway, and
\* handleSynthesis runs to its end
RoadmapSettlesWith(k, reply) ==
  /\ pending[k].stage = "roadmap"
  /\ LET c == pending[k].closure
         outcome == generateRoadmap(c.user.apiKeys[c.preferredProvider], reply,
                                    Uuid(Len(made) + 1))
         guide == outcome.value
         counted == IF Charged(pending[k], outcome)
                      THEN [localStorage EXCEPT !.dailyCount = c.user.dailyCount + 1]
                      ELSE localStorage
         history == slice(<<guide>> \o c.history, HistoryLimit)
         fp == computeFingerprint(c)
         ls == [counted EXCEPT !.history = history, !.session_fp = fp]
     IN  IF outcome.thrown
           THEN /\ Commit(catch(state, outcome.message), sessionInitialized,
                          sessionFingerprint, counted, FALSE)
                /\ made' = made
         ELSE /\ Len(made) < MaxRoadmaps
              /\ Commit([state EXCEPT !.history = history, !.activeRoadmap = guide,
                                      !.view = "workspace", !.currentStepIndex = 0,
                                      !.isProcessing = FALSE, !.user = validate(counted)],
                        TRUE, fp, ls, TRUE)
              /\ made' = Append(made, guide)
  /\ pending' = [pending EXCEPT ![k] = NoSynthesis]
  /\ UNCHANGED <<mode, promptField, timers>>
  /\ UNCHANGED Backstage

RoadmapSettles(k) == \E reply \in RoadmapReplies : RoadmapSettlesWith(k, reply)

\* the nav bar: navigateTo('studio'), navigateTo('gallery'), navigateTo('profile')
Navigate(v) ==
  /\ v \in {"studio", "gallery", "profile"}
  /\ SetState(navigateTo(state, v, NoRoadmap))
  /\ UNCHANGED <<mode, promptField, pending, timers, made>>
  /\ UNCHANGED Backstage

\* a click on an entry of the Art Registry or of the gallery
OpenRoadmap(i) ==
  /\ state.view \in {"studio", "gallery"}
  /\ i \in DOMAIN state.history
  /\ SetState(navigateTo(state, "workspace", state.history[i]))
  /\ UNCHANGED <<mode, promptField, pending, timers, made>>
  /\ UNCHANGED Backstage

\* deleteHistoryItem without its localStorage.setItem
deleteHistoryItem_unsaved(i) ==
  /\ state.view \in {"studio", "gallery"}
  /\ i \in DOMAIN state.history
  /\ SetState([state EXCEPT !.history = filterOut(state.history, state.history[i].id)])
  /\ UNCHANGED <<mode, promptField, pending, timers, made>>
  /\ UNCHANGED Backstage

\* deleteHistoryItem(h.id) on the entry at position i
deleteHistoryItem(i) ==
  /\ state.view \in {"studio", "gallery"}
  /\ i \in DOMAIN state.history
  /\ LET history == filterOut(state.history, state.history[i].id)
     IN  Commit([state EXCEPT !.history = history], sessionInitialized,
                sessionFingerprint, [localStorage EXCEPT !.history = history], FALSE)
  /\ UNCHANGED <<mode, promptField, pending, timers, made>>
  /\ UNCHANGED Backstage

\* the workspace buttons: Back, Next (or Finish), Restart and the step dots
Back ==
  /\ state.view = "workspace"
  /\ SetState([state EXCEPT !.currentStepIndex = IF @ > 0 THEN @ - 1 ELSE 0])
  /\ UNCHANGED <<mode, promptField, pending, timers, made>>
  /\ UNCHANGED Backstage

NextStep ==
  /\ state.view = "workspace"
  /\ IF state.currentStepIndex < state.activeRoadmap.steps - 1
       THEN SetState([state EXCEPT !.currentStepIndex = @ + 1])
       ELSE SetState(navigateTo(state, "studio", NoRoadmap))
  /\ UNCHANGED <<mode, promptField, pending, timers, made>>
  /\ UNCHANGED Backstage

Restart ==
  /\ state.view = "workspace"
  /\ SetState([state EXCEPT !.currentStepIndex = 0])
  /\ UNCHANGED <<mode, promptField, pending, timers, made>>
  /\ UNCHANGED Backstage

SelectStep(i) ==
  /\ state.view = "workspace"
  /\ i \in 0..(state.activeRoadmap.steps - 1)
  /\ SetState([state EXCEPT !.currentStepIndex = i])
  /\ UNCHANGED <<mode, promptField, pending, timers, made>>
  /\ UNCHANGED Backstage

\* the studio: Asset Scan / Manifest Engine, the file input, the textarea
\* with its provider detection, the Orchestration Engine select
setMode(m) ==
  /\ state.view = "studio"
  /\ m \in {"upload", "generate"}
  /\ mode' = m
  /\ UNCHANGED <<state, promptField, sessionInitialized, sessionFingerprint,
                 localStorage, pending, timers, made>>
  /\ UNCHANGED Backstage

UploadAsset ==
  /\ state.view = "studio" /\ mode = "upload" /\ state.inputImage = null
  /\ SetState([state EXCEPT !.inputImage = DataUri])
  /\ UNCHANGED <<mode, promptField, pending, timers, made>>
  /\ UNCHANGED Backstage

setPrompt(val) ==
  /\ state.view = "studio" /\ mode = "generate"
  /\ val \in Prompts
  /\ promptField' = val
  /\ IF detected(val) # null /\ detected(val) # state.preferredProvider
       THEN SetState([state EXCEPT !.preferredProvider = detected(val)])
       ELSE SetState(state)
  /\ UNCHANGED <<mode, pending, timers, made>>
  /\ UNCHANGED Backstage

SelectProvider(p) ==
  /\ state.view = "studio"
  /\ p \in AppProviders
  /\ Commit([state EXCEPT !.preferredProvider = p], sessionInitialized,
            sessionFingerprint, [localStorage EXCEPT !.preferredProvider = p], FALSE)
  /\ UNCHANGED <<mode, promptField, pending, timers, made>>
  /\ UNCHANGED Backstage

\* the profile: a key typed into the vault, the vault's lock button and
\* the timer it starts
EditKey(p, key) ==
  /\ state.view = "profile" /\ state.isVaultUnlocked
  /\ p \in AppProviders /\ key \in {"", UserKey}
  /\ LET ls == [localStorage EXCEPT !.apiKeys[p] = key]
     IN  Commit([state EXCEPT !.user = validate(ls)], sessionInitialized,
                sessionFingerprint, ls, TRUE)
  /\ UNCHANGED <<mode, promptField, pending, timers, made>>
  /\ UNCHANGED Backstage

ToggleVault ==
  /\ state.view = "profile"
  /\ timers < MaxTimers
  /\ timers' = timers + 1
  /\ SetState([state EXCEPT !.isProcessing = TRUE])
  /\ UNCHANGED <<mode, promptField, pending, made>>
  /\ UNCHANGED Backstage

TimerFires ==
  /\ timers > 0
  /\ timers' = timers - 1
  /\ SetState([state EXCEPT !.isVaultUnlocked = ~@, !.isProcessing = FALSE])
  /\ UNCHANGED <<mode, promptField, pending, made>>
  /\ UNCHANGED Backstage

\* the session with the vault's lock: a synthesis, the nav bar, the
\* provider select and the lock button with its timer
NextApp ==
  \/ handleSynthesis
  \/ \E k \in 1..MaxSyntheses : RoadmapSettles(k)
  \/ \E v \in {"studio", "profile"} : Navigate(v)
  \/ UploadAsset
  \/ \E p \in AppProviders : SelectProvider(p)
  \/ ToggleVault \/ TimerFires

SpecApp == InitApp /\ [][NextApp]_vars

\* the session of a user who changes provider and keys between syntheses
InitSession == MountedWith({<< >>}, {TRUE})

NextSession ==
  \/ handleSynthesis
  \/ \E k \in 1..MaxSyntheses : RoadmapSettles(k)
  \/ \E v \in {"studio", "profile"} : Navigate(v)
  \/ UploadAsset
  \/ \E p \in AppProviders : SelectProvider(p)
  \/ \E p \in AppProviders, key \in {"", UserKey} : EditKey(p, key)

SpecSession == InitSession /\ [][NextSession]_vars

\* the Manifest Engine: a prompt, the image call and the roadmap call
InitManifest == MountedWith({<< >>}, {FALSE})

NextManifest ==
  \/ handleSynthesis
  \/ \E k \in 1..MaxSyntheses : ImageSettles(k) \/ RoadmapSettles(k)
  \/ Navigate("studio")
  \/ \E m \in {"upload", "generate"} : setMode(m)
  \/ UploadAsset
  \/ \E val \in Prompts : setPrompt(val)

\* every await of a gateway call settles
SpecManifest ==
  /\ InitManifest /\ [][NextManifest]_vars
  /\ \A k \in 1..MaxSyntheses : WF_vars(ImageSettles(k)) /\ WF_vars(RoadmapSettles(k))

\* the free tier: a user without own keys, or with one for OpenAI only, whose
\* stored count the mount reads.  Under DAILY_LIMIT - 1 nothing differs from
\* a count of 0, which is also the only count this build ever writes.
StoredCounts == {0, DAILY_LIMIT - 1, DAILY_LIMIT}

InitFreeTier ==
  /\ env = << >>
  /\ phase = "idle"
  /\ req = NoRequest
  /\ impl = "none"
  /\ resp = NoResponse
  /\ log = << >>
  /\ net = << >>
  /\ upstream = NoReply
  /\ prev = NoPrev
  /\ flight = NoFlight
  /\ \E r \in Registries({<< >>}), n \in StoredCounts :
       localStorage = [r EXCEPT !.dailyCount = n]
  /\ state = Mounted(localStorage, FALSE)
  /\ mode = "upload"
  /\ promptField = ""
  /\ sessionInitialized = FALSE
  /\ sessionFingerprint = localStorage.session_fp
  /\ pending = [k \in 1..MaxSyntheses |-> NoSynthesis]
  /\ timers = 0
  /\ made = << >>
  /\ services \in {"APIManager", "AIService"}

NextFreeTier ==
  \/ handleSynthesis
  \/ \E k \in 1..MaxSyntheses : RoadmapSettles(k)
  \/ Navigate("studio")
  \/ UploadAsset
  \/ \E p \in AppProviders : SelectProvider(p)

SpecFreeTier == InitFreeTier /\ [][NextFreeTier]_vars

\* the workspace: roadmaps made, opened from the history and stepped through
InitWorkspace == MountedWith({<< >>, Old(2)}, {FALSE})

NextWorkspace ==
  \/ handleSynthesis
  \/ \E k \in 1..MaxSyntheses : RoadmapSettles(k)
  \/ \E v \in {"studio", "gallery"} : Navigate(v)
  \/ UploadAsset
  \/ \E i \in 1..HistoryLimit : OpenRoadmap(i)
  \/ Back \/ NextStep \/ Restart
  \/ \E i \in 0..(MaxSteps - 1) : SelectStep(i)

SpecWorkspace == InitWorkspace /\ [][NextWorkspace]_vars

\* the Art Registry: roadmaps made and deleted
InitRegistry == MountedWith({<< >>, Old(HistoryLimit - 1)}, {FALSE})

\* the entry the user deletes: the first of the list
DeletePositions == {1}

NextRegistry ==
  \/ handleSynthesis
  \/ \E k \in 1..MaxSyntheses : RoadmapSettles(k)
  \/ Navigate("studio")
  \/ UploadAsset
  \/ \E p \in AppProviders : SelectProvider(p)
  \/ \E i \in DeletePositions : deleteHistoryItem(i)

SpecRegistry == InitRegistry /\ [][NextRegistry]_vars

\* the shape of the client's state
AppTypeOK ==
  /\ state.view \in {"studio", "workspace", "gallery", "profile", "limit"}
  /\ state.isProcessing \in BOOLEAN
  /\ state.currentStepIndex \in 0..MaxSteps
  /\ mode \in {"upload", "generate"}
  /\ promptField \in Prompts
  /\ sessionInitialized \in BOOLEAN
  /\ timers \in 0..MaxTimers
  /\ Len(made) <= MaxRoadmaps
  /\ \A k \in 1..MaxSyntheses : pending[k].stage \in {"idle", "image", "roadmap"}

-----------------------------------------------------------------------------
\* the handleSynthesis calls that await the gateway
InFlight == {k \in 1..MaxSyntheses : pending[k].stage # "idle"}

(* C23: handleSynthesis is guarded against re-entry: while isProcessing   *)
(* is true or the session is initialized a further call sends no request, *)
(* so at most one synthesis is in flight at any time.  The code breaks    *)
(* the conclusion: isProcessing is shared with the profile's vault        *)
(* button, whose timer sets it to false while a synthesis still awaits    *)
(* the gateway, and the next click on Initialize starts a second one.     *)
C23_AtMostOneSynthesisInFlight == Cardinality(InFlight) <= 1

\* a handleSynthesis call ends in this step: it returned or was caught
Ends(k) == pending[k].stage # "idle" /\ pending'[k].stage = "idle"

\* a roadmap was made in this step
Succeeds == Len(made') > Len(made)

-----------------------------------------------------------------------------
-----------------------------------------------------------------------------
\* the image call of slot k returns, on this reply, a string that is not an
\* image data URI
ReturnsText(k, reply) ==
  /\ ~Manifestation(k, reply).thrown
  /\ Manifestation(k, reply).value # undefined
  /\ ~StartsWith(Manifestation(k, reply).value, "data:image")

(* C25 as stated: in generate mode, when the image call returns a string   *)
(* that is not an image data URI, whatever the string, no error is raised, *)
(* the string replaces the prompt of the roadmap request and the input     *)
(* image is left alone.  An empty string with no image held is an error.   *)
C25_TextResultNeverFails ==
  [][\A k \in 1..MaxSyntheses : \A reply \in ImageReplies :
       (ImageSettlesWith(k, reply) /\ ReturnsText(k, reply)) =>
         /\ state'.error = null
         /\ pending'[k].stage = "roadmap"
         /\ pending'[k].finalPrompt = Manifestation(k, reply).value
         /\ state'.inputImage = state.inputImage]_vars

(* C25, amended: when the image call returns a string that is not an image *)
(* data URI, the string replaces finalPrompt and no error is raised,       *)
(* unless the string is empty and no input image is held: then the call    *)
(* ends with "No target asset or description selected.".  The roadmap      *)
(* request carries the held input image when there is one and the string   *)
(* otherwise.  The input image is set exactly when the result starts with  *)
(* data:image.                                                             *)
C25_TextResultBecomesPrompt ==
  [][\A k \in 1..MaxSyntheses : \A reply \in ImageReplies :
       ImageSettlesWith(k, reply) =>
         /\ ReturnsText(k, reply) =>
              /\ state'.inputImage = state.inputImage
              /\ IF Manifestation(k, reply).value = "" /\ pending[k].image = null
                   THEN /\ state'.error = "No target asset or description selected."
                        /\ ~state'.isProcessing
                        /\ pending'[k].stage = "idle"
                   ELSE /\ state'.error = state.error
                        /\ pending'[k].stage = "roadmap"
                        /\ pending'[k].finalPrompt = Manifestation(k, reply).value
                        /\ RoadmapSubject(pending'[k]) =
                             IF pending[k].image # null THEN pending[k].image
                             ELSE Manifestation(k, reply).value
         /\ state'.inputImage # state.inputImage =>
              /\ ~Manifestation(k, reply).thrown
              /\ StartsWith(Manifestation(k, reply).value, "data:image")
              /\ state'.inputImage = Manifestation(k, reply).value]_vars

\* a roadmap request is under way whose prompt is the text the image call
\* returned, not the prompt the user typed
C25_Witness ==
  \E k \in 1..MaxSyntheses :
    /\ pending[k].stage = "roadmap"
    /\ pending[k].image = null
    /\ pending[k].finalPrompt # pending[k].prompt
    /\ pending[k].finalPrompt = "an old man, lit from the left"
    /\ state.error = null /\ state.inputImage = null

-----------------------------------------------------------------------------
(* C29: every handleSynthesis call that sets isProcessing to true sets it  *)
(* back to false when it ends, on success and on every failure of the      *)
(* image or the roadmap request, and it does end, given that each gateway  *)
(* request completes or fails; a call that throws before its first request *)
(* leaves isProcessing false at once.                                      *)
C29_ProcessingEnds ==
  /\ [][\A k \in 1..MaxSyntheses : Ends(k) => ~state'.isProcessing]_vars
  /\ [][(handleSynthesis /\ ~state.isProcessing /\ state'.isProcessing) =>
          \E k \in 1..MaxSyntheses : pending[k].stage = "idle" /\ pending'[k].stage # "idle"]_vars
  /\ \A k \in 1..MaxSyntheses :
       (pending[k].stage # "idle" /\ state.isProcessing)
         ~> (pending[k].stage = "idle" /\ ~state.isProcessing)

\* the image request of a synthesis failed: the call is over, the error is
\* shown and isProcessing is false again
C29_Witness ==
  /\ services = "AIService"
  /\ InFlight = {}
  /\ state.error = "image generation failed"
  /\ ~state.isProcessing

-----------------------------------------------------------------------------
\* the user of this render has no own key for the preferred provider
Keyless(s) == Falsy(s.user.apiKeys[s.preferredProvider])

(* C27: for a user without an own key for the preferred provider the       *)
(* stored dailyCount never exceeds DAILY_LIMIT; a handleSynthesis call     *)
(* made when dailyCount >= DAILY_LIMIT navigates to the limit view and     *)
(* sends no gateway request; and dailyCount is raised, by one, only by a   *)
(* synthesis that succeeded, never by one that failed.                     *)
C27_DailyCountWithinLimit ==
  /\ [](localStorage.dailyCount <= DAILY_LIMIT /\ state.user.dailyCount <= DAILY_LIMIT)
  /\ [][(/\ handleSynthesis
         /\ ~state.isProcessing
         /\ Keyless(state) /\ state.user.dailyCount >= DAILY_LIMIT) =>
          /\ state'.view = "limit"
          /\ pending' = pending
          /\ ~state'.isProcessing
          /\ localStorage' = localStorage]_vars
  /\ [][localStorage'.dailyCount # localStorage.dailyCount =>
          /\ Succeeds
          /\ localStorage'.dailyCount = localStorage.dailyCount + 1]_vars
  /\ [][(\E k \in 1..MaxSyntheses : Ends(k) /\ ~pending[k].hasOwnKey /\ ~Succeeds) =>
          /\ localStorage'.dailyCount = localStorage.dailyCount
          /\ state'.user.dailyCount = state.user.dailyCount]_vars

\* a keyless user at the limit was sent to the limit view, with nothing in
\* flight and the count as it was
C27_Witness ==
  /\ state.view = "limit"
  /\ Keyless(state)
  /\ localStorage.dailyCount = DAILY_LIMIT
  /\ InFlight = {}
  /\ ~state.isProcessing

-----------------------------------------------------------------------------
(* C30 as stated: after any sequence of successful syntheses and history   *)
(* deletions the stored history holds at most HistoryLimit roadmaps, the   *)
(* roadmap of the most recent successful synthesis is its first entry, and *)
(* the in-memory history equals the persisted one.  A deletion of the      *)
(* newest roadmap leaves an older one first.                               *)
C30_NewestRoadmapFirst ==
  /\ Len(localStorage.history) <= HistoryLimit
  /\ state.history = localStorage.history
  /\ made # << >> =>
       /\ localStorage.history # << >>
       /\ Head(localStorage.history) = made[Len(made)]

(* C30, amended: the stored history holds at most HistoryLimit roadmaps    *)
(* and the in-memory history equals the persisted one, always; each        *)
(* successful synthesis puts its roadmap first, before the history its     *)
(* call started from, and the roadmap stays first until it is deleted or   *)
(* a later synthesis succeeds.                                             *)
C30_HistoryBoundedAndPersisted ==
  /\ [](/\ Len(localStorage.history) <= HistoryLimit
        /\ state.history = localStorage.history)
  /\ [][Succeeds =>
          /\ Head(localStorage'.history) = made'[Len(made')]
          /\ \E k \in 1..MaxSyntheses :
               /\ Ends(k)
               /\ localStorage'.history =
                    slice(<<made'[Len(made')]>> \o pending[k].closure.history, HistoryLimit)]_vars
  /\ [][(/\ localStorage.history # << >>
         /\ localStorage'.history # localStorage.history
         /\ ~Succeeds) =>
          \E i \in DOMAIN localStorage.history :
            localStorage'.history = filterOut(localStorage.history, localStorage.history[i].id)]_vars

\* a full registry took a new roadmap first and dropped its oldest entry
C30_Witness ==
  /\ made # << >>
  /\ Len(localStorage.history) = HistoryLimit
  /\ Head(localStorage.history) = made[Len(made)]
  /\ state.history = localStorage.history
  /\ \E i \in DOMAIN localStorage.history : localStorage.history[i].id = "old-" \o ToString(HistoryLimit - 1)
  /\ \A i \in DOMAIN localStorage.history : localStorage.history[i].id # "old-1"

====
